---- MODULE Spec2Model ----
(***************************************************************************)
(* Model of the coxeter crate: the group enumerator (src/src/group.rs)     *)
(* over the matrix primitives (src/src/matrix.rs, src/src/util.rs) and the *)
(* polytope arena (src/src/polytope.rs) over the vector primitives         *)
(* (src/src/vector.rs).                                                    *)
(*                                                                         *)
(* Scalars of the group part are integers (f32 values that are exactly     *)
(* representable); scalars of the arena part are exact rationals kept as   *)
(* an integer vector over a common positive denominator.                   *)
(***************************************************************************)
EXTENDS Integers, Sequences, FiniteSets, TLC

(***************************************************************************)
(* Bounds of the model.                                                    *)
(***************************************************************************)
\* Longest generator list drawn from GeneratorPool.
MaxGens == 2
\* Largest element table the closure may build.
MaxOrder == 48

(***************************************************************************)
(* util.rs                                                                 *)
(***************************************************************************)
\* EPSILON = 0.001 = 1 / EPSILON_INV
EPSILON_INV == 1000

Abs(a) == IF a < 0 THEN -a ELSE a

Max(a, b) == IF a < b THEN b ELSE a

\* f32_approx_eq on integer-valued floats: (a - b).abs() < EPSILON
f32_approx_eq(a, b) == Abs(a - b) * EPSILON_INV < 1

(***************************************************************************)
(* matrix.rs: a matrix is [ndim, elems], elems in column-major order.      *)
(* Columns and rows are numbered from 0 as in the source.                  *)
(***************************************************************************)
\* Sum of f[i] for i in lo..hi-1
RECURSIVE SumRange(_, _, _)
SumRange(f, lo, hi) == IF lo >= hi THEN 0 ELSE f[lo] + SumRange(f, lo + 1, hi)

EMPTY_IDENT == [ndim |-> 0, elems |-> <<>>]

\* column and row of the k-th stored element of a matrix of dimension n
ColOf(k, n) == (k - 1) \div n
RowOf(k, n) == (k - 1) % n

MatrixZero(n) == [ndim |-> n, elems |-> [k \in 1..(n * n) |-> 0]]

MatrixIdent(n) ==
    [ndim |-> n,
     elems |-> [k \in 1..(n * n) |-> IF ColOf(k, n) = RowOf(k, n) THEN 1 ELSE 0]]

\* Matrix::get: entries beyond ndim are those of the identity
MatrixGet(m, col, row) ==
    IF col < m.ndim /\ row < m.ndim
    THEN m.elems[col * m.ndim + row + 1]
    ELSE IF col = row THEN 1 ELSE 0

\* Mul for &Matrix: the outer loop runs over the columns of self only
MatrixMul(self, rhs) ==
    LET new_ndim == Max(self.ndim, rhs.ndim)
    IN  [ndim |-> new_ndim,
         elems |-> [k \in 1..(new_ndim * new_ndim) |->
                       SumRange([i \in 0..(self.ndim - 1) |->
                                    MatrixGet(self, i, RowOf(k, new_ndim))
                                        * MatrixGet(rhs, ColOf(k, new_ndim), i)],
                                0, self.ndim)]]

\* Matrix::approx_eq
MatrixApproxEq(self, other) ==
    LET n == Max(self.ndim, other.ndim)
    IN  \A x \in 0..(n - 1) : \A y \in 0..(n - 1) :
            f32_approx_eq(MatrixGet(self, x, y), MatrixGet(other, x, y))


(***************************************************************************)
(* Generator matrices offered to Group::from_generators.  Mirror43a,       *)
(* Mirror43b and Mirror43c are the mirror matrices of the Coxeter diagram  *)
(* [4,3] as CoxeterDiagram::mirrors and From<Mirror> for Matrix produce    *)
(* them (of dimension 1, 2 and 3); Mirror2b is the second mirror of [2].   *)
(* All pool members are signed permutation matrices, so every generator    *)
(* list generates a finite group.  Lists may repeat a generator and may    *)
(* hold the identity: from_generators accepts any slice.                   *)
(***************************************************************************)
Mirror43a == [ndim |-> 1, elems |-> <<-1>>]
Mirror43b == [ndim |-> 2, elems |-> <<0, -1, -1, 0>>]
Mirror43c == [ndim |-> 3, elems |-> <<1, 0, 0, 0, 0, -1, 0, -1, 0>>]
Mirror2b == [ndim |-> 2, elems |-> <<1, 0, 0, -1>>]
Rot90 == [ndim |-> 2, elems |-> <<0, 1, -1, 0>>]

GeneratorPool == {Mirror43a, Mirror43b, Mirror43c, Mirror2b, Rot90, MatrixIdent(1)}

SeqsUpTo(S, n) == UNION {[1..k -> S] : k \in 0..n}

TripleLists ==
    {<<Mirror43a, Mirror43b, Mirror43c>>,
     <<Mirror43a, Mirror2b, Mirror43c>>,
     <<Mirror43a, Mirror43b, Mirror43a>>,
     <<Mirror43a, Mirror2b, Mirror43a>>}

GeneratorLists == SeqsUpTo(GeneratorPool, MaxGens) \cup TripleLists

(***************************************************************************)
(* State of Group::from_generators (group.rs lines 40-107).                *)
(***************************************************************************)
VARIABLES
    generators,          \* the argument of from_generators
    ndim,                \* Group.ndim
    generator_count,     \* Group.generator_count
    elem_matrices,       \* Group.elem_matrices
    elem_decompositions, \* Group.elem_decompositions
    elem_successors,     \* Group.elem_successors
    elem_inverses,       \* Group.elem_inverses
    next_unprocessed,    \* the worklist cursor of the closure loop
    gen_i,               \* index i of the inner loop over the generators
    inv_elem_cursor,     \* position of the loop that derives the inverses
    pc                   \* "closure", "inverses", "done" or "aborted"

groupVars == <<generators, ndim, generator_count, elem_matrices,
               elem_decompositions, elem_successors, elem_inverses,
               next_unprocessed, gen_i, inv_elem_cursor, pc>>

VARIABLES
    cube_ndim,       \* the ndim argument of new_cube
    cube_radius,     \* the radius argument of new_cube
    polytopes,       \* PolytopeArena.polytopes
    root,            \* PolytopeArena.root
    arena_pc,        \* "idle", "sliced" (before the sweep) or "panicked"
    slice_pole,      \* the pole of the slice_by_plane call in progress or last made
    prev_pole,       \* the pole of the slice_by_plane call before that one
    pre_polytopes,   \* the slot table when that call was entered
    debug_failed,    \* a debug_assert_eq! on ranks has failed
    slices_done      \* number of slice_by_plane calls entered

arenaVars == <<cube_ndim, cube_radius, polytopes, root, arena_pc, slice_pole,
               prev_pole, pre_polytopes, debug_failed, slices_done>>

VARIABLES
    mul_lhs,         \* self of &self * &rhs
    mul_rhs,         \* rhs of &self * &rhs
    mul_out,         \* the matrix the multiplication returned
    mul_pc           \* "ready" (before the call) or "done"

mulVars == <<mul_lhs, mul_rhs, mul_out, mul_pc>>

VARIABLES
    ord_ndim,        \* the ndim argument of new_cube, for both arenas
    ord_radius,      \* the radius argument of new_cube, for both arenas
    ord_p,           \* the pole p
    ord_q,           \* the pole q
    ord_pq,          \* the arena sliced by p then by q
    ord_qp,          \* the arena sliced by q then by p
    ord_pc           \* "ready", "first" (one arena sliced) or "done"

orderVars == <<ord_ndim, ord_radius, ord_p, ord_q, ord_pq, ord_qp, ord_pc>>

VARIABLES
    pg_polytopes,    \* the slot table of the arena polygons() is called on
    pg_slot,         \* position of the iterator over self.polytopes
    pg_first,        \* first_vertex of the polygon being walked
    pg_prev,         \* prev
    pg_current,      \* current
    pg_verts,        \* the ids of the points pushed to verts so far
    pg_out,          \* the polygons collected so far
    pg_pc            \* "scan", "walk", "returned" or "panicked"

polygonVars == <<pg_polytopes, pg_slot, pg_first, pg_prev, pg_current, pg_verts,
                 pg_out, pg_pc>>

VARIABLES
    demo_cd,         \* self.cd: the text of the diagram field, one character per element
    demo_cd_error,   \* self.cd_error
    demo_ndim,       \* self.ndim
    demo_poles,      \* self.poles
    demo_polygons,   \* self.polygons, as the call that produced them
    demo_arrows,     \* self.arrows, as the call that produced them
    demo_calls,      \* the library calls the last handler made, in order
    demo_last,       \* the handler that ran last: "none", "Generate cube" or "Generate!"
    demo_pre         \* polygons, ndim and arrows as they were before it ran

demoVars == <<demo_cd, demo_cd_error, demo_ndim, demo_poles, demo_polygons,
              demo_arrows, demo_calls, demo_last, demo_pre>>

VARIABLES
    sg_ndim,             \* the ndim argument of shape_geom
    sg_generators,       \* the generators argument
    sg_base_facets,      \* the base_facets argument
    sg_arena,            \* arena
    sg_facet_poles,      \* facet_poles
    sg_next_unprocessed, \* next_unprocessed
    sg_gen,              \* position of the for loop over generators, from 1
    sg_slice,            \* position of the for loop over facet_poles, from 1
    sg_pc                \* "start", "orbit", "gens", "slice", "polygons" or "panicked"

shapeVars == <<sg_ndim, sg_generators, sg_base_facets, sg_arena, sg_facet_poles,
               sg_next_unprocessed, sg_gen, sg_slice, sg_pc>>

VARIABLES
    cut_pole,        \* the pole argument, its components f32 values
    cut_a,           \* the point of old_children[0]
    cut_b,           \* the point of old_children[1]
    cut_a_result,    \* the slice_result of old_children[0]
    cut_b_result,    \* the slice_result of old_children[1]
    cut_a_distance,  \* a_distance
    cut_b_distance,  \* b_distance
    cut_sum,         \* sum
    cut_point,       \* the point handed to push_point
    cut_pc           \* "start", "classified", "kept", "removed", "modified"

cutVars == <<cut_pole, cut_a, cut_b, cut_a_result, cut_b_result, cut_a_distance,
             cut_b_distance, cut_sum, cut_point, cut_pc>>

(***************************************************************************)
(* State of generate_group (lib.rs lines 51-64).                           *)
(***************************************************************************)
VARIABLES
    gg_generators,   \* the argument of generate_group
    gg_ndim,         \* ndim
    gg_ret,          \* ret
    gg_queue,        \* queue
    gg_pc            \* "loop" or "done"

generateVars == <<gg_generators, gg_ndim, gg_ret, gg_queue, gg_pc>>

vars == <<groupVars, arenaVars, mulVars, orderVars, polygonVars, demoVars, shapeVars,
          cutVars, generateVars>>

\* the variables outside each part of the program
outsideGroup == <<arenaVars, mulVars, orderVars, polygonVars, demoVars, shapeVars,
    cutVars, generateVars>>
outsideArena == <<groupVars, mulVars, orderVars, polygonVars, demoVars, shapeVars,
    cutVars, generateVars>>
outsideMul == <<groupVars, arenaVars, orderVars, polygonVars, demoVars, shapeVars,
    cutVars, generateVars>>
outsideOrder == <<groupVars, arenaVars, mulVars, polygonVars, demoVars, shapeVars,
    cutVars, generateVars>>
outsidePolygons == <<groupVars, arenaVars, mulVars, orderVars, demoVars, shapeVars,
    cutVars, generateVars>>
outsideDemo == <<groupVars, arenaVars, mulVars, orderVars, polygonVars, shapeVars,
    cutVars, generateVars>>
outsideCut == <<groupVars, arenaVars, mulVars, orderVars, polygonVars, demoVars,
               shapeVars, generateVars>>
\* generate_group is run beside from_generators on the same list, so the
\* variables of from_generators are not outside it
outsideGenerate == <<arenaVars, mulVars, orderVars, polygonVars, demoVars, shapeVars,
                     cutVars>>
\* shape_geom ends in a call of polygons(), so the variables of that call are
\* not outside it
outsideShape == <<groupVars, arenaVars, mulVars, orderVars, demoVars,
    cutVars, generateVars>>

\* GroupElement::IDENT
IDENT == 0

\* A handle e is kept as the number e; the tables are sequences, so the
\* entry of handle e is at position e + 1.
order == Len(elem_matrices)
matrix(e) == elem_matrices[e + 1]
decompose(e) == elem_decompositions[e + 1]
inverse(e) == elem_inverses[e + 1]
elements == 0..(order - 1)
group_generators == 1..generator_count

\* Group::compose: fold e2's decomposition over the successor table
RECURSIVE ComposeFold(_, _, _)
ComposeFold(succ, e, gens) ==
    IF gens = <<>> THEN e
    ELSE ComposeFold(succ, succ[Head(gens)][e + 1], Tail(gens))

\* compose with its operands exchanged
composeSwapped(e1, e2) == ComposeFold(elem_successors, e2, decompose(e1))

compose(e1, e2) == ComposeFold(elem_successors, e1, decompose(e2))

Reverse(s) == [k \in 1..Len(s) |-> s[Len(s) + 1 - k]]

\* the fold of lines 92-98: compose the inverses of the generators of the
\* decomposition, last generator first
RECURSIVE InverseFold(_, _)
InverseFold(e, gens) ==
    IF gens = <<>> THEN e
    ELSE InverseFold(compose(e, inverse(Head(gens))), Tail(gens))

\* Vec::resize(n, fill)
Resize(s, n, fill) == [k \in 1..n |-> IF k <= Len(s) THEN s[k] ELSE fill]

MaxNdim(gens) ==
    IF gens = <<>> THEN 0
    ELSE CHOOSE n \in {gens[k].ndim : k \in 1..Len(gens)} :
            \A k \in 1..Len(gens) : gens[k].ndim <= n

(***************************************************************************)
(* vector.rs: a Vector<f32> of the arena is an exact rational vector, kept *)
(* as integer numerators over one common denominator; a scalar is a        *)
(* fraction [n, d].  A denominator of 0 stands for the result of a         *)
(* division by zero (infinity or NaN).                                     *)
(***************************************************************************)
RECURSIVE Gcd(_, _)
Gcd(a, b) == IF b = 0 THEN Abs(a) ELSE Gcd(b, a % b)

RECURSIVE GcdSeq(_, _)
GcdSeq(s, g) == IF s = <<>> THEN g ELSE GcdSeq(Tail(s), Gcd(Head(s), g))

\* the canonical form of a vector: positive denominator, lowest terms
VecNormal(v) ==
    IF v.den = 0 THEN [num |-> [k \in 1..Len(v.num) |-> 0], den |-> 0]
    ELSE LET g == GcdSeq(v.num, Abs(v.den))
             sgn == IF v.den < 0 THEN -1 ELSE 1
         IN  [num |-> [k \in 1..Len(v.num) |-> sgn * (v.num[k] \div g)],
              den |-> sgn * (v.den \div g)]

IntVector(xs) == [num |-> xs, den |-> 1]

\* VectorRef::ndim
VecNdim(v) == Len(v.num)

\* VectorRef::get for Vector: zero beyond the stored components
VecNum(v, k) == IF k <= Len(v.num) THEN v.num[k] ELSE 0

\* the canonical form of a scalar
ScalarNormal(s) ==
    IF s.d = 0 THEN [n |-> 0, d |-> 0]
    ELSE LET g == Gcd(s.n, Abs(s.d))
             sgn == IF s.d < 0 THEN -1 ELSE 1
         IN  [n |-> sgn * (s.n \div g), d |-> sgn * (s.d \div g)]

\* the factors that bring two denominators to their common multiple
CommonDen(ld, rd) ==
    IF ld = 0 \/ rd = 0 THEN [l |-> 0, r |-> 0, den |-> 0]
    ELSE LET g == Gcd(ld, Abs(rd))
         IN  [l |-> rd \div g, r |-> ld \div g, den |-> ld * (rd \div g)]

\* define_zero_padded_op!(Sub)
VecSub(lhs, rhs) ==
    LET result_ndim == Max(VecNdim(lhs), VecNdim(rhs))
        c == CommonDen(lhs.den, rhs.den)
    IN  VecNormal([num |-> [k \in 1..result_ndim |->
                               VecNum(lhs, k) * c.l - VecNum(rhs, k) * c.r],
                   den |-> c.den])

\* define_zero_padded_op!(Add)
VecAdd(lhs, rhs) ==
    LET result_ndim == Max(VecNdim(lhs), VecNdim(rhs))
        c == CommonDen(lhs.den, rhs.den)
    IN  VecNormal([num |-> [k \in 1..result_ndim |->
                               VecNum(lhs, k) * c.l + VecNum(rhs, k) * c.r],
                   den |-> c.den])

Min(a, b) == IF a < b THEN a ELSE b

\* VectorRef::dot: zip stops at the shorter vector
VecDot(lhs, rhs) ==
    LET n == Min(VecNdim(lhs), VecNdim(rhs))
    IN  ScalarNormal(
            [n |-> SumRange([k \in 1..n |-> lhs.num[k] * rhs.num[k]], 1, n + 1),
             d |-> lhs.den * rhs.den])

\* Mul<N> for Vector
VecScale(v, s) ==
    VecNormal([num |-> [k \in 1..VecNdim(v) |-> v.num[k] * s.n],
               den |-> v.den * s.d])

\* Div<N> for Vector: the common factors are cancelled before multiplying
VecDiv(v, s) ==
    IF v.den = 0 \/ s.d = 0 \/ s.n = 0
    THEN VecNormal([num |-> v.num, den |-> 0])
    ELSE LET g1 == Gcd(s.d, Abs(v.den))
             g2 == GcdSeq(v.num, Abs(s.n))
         IN  VecNormal([num |-> [k \in 1..VecNdim(v) |->
                                    (v.num[k] \div g2) * (s.d \div g1)],
                        den |-> (v.den \div g1) * (s.n \div g2)])

ScalarNeg(s) == [n |-> -s.n, d |-> s.d]

\* 0.0_f32
F32Zero == [n |-> 0, d |-> 1]

ScalarAdd(s, t) ==
    LET c == CommonDen(s.d, t.d)
    IN  ScalarNormal([n |-> s.n * c.l + t.n * c.r, d |-> c.den])

\* s > -EPSILON; a comparison with NaN (denominator 0) is false
GreaterThanMinusEpsilon(s) ==
    IF s.d = 0 THEN FALSE
    ELSE IF s.d > 0 THEN s.n * EPSILON_INV > -s.d
    ELSE -s.n * EPSILON_INV > s.d


(***************************************************************************)
(* polytope.rs: the arena.  A slot of PolytopeArena.polytopes is a record; *)
(* live = FALSE is the empty slot (None).  A PolytopeId p is the number p, *)
(* its slot is at position p + 1.                                          *)
(***************************************************************************)
Unknown == [tag |-> "Unknown", id |-> -1]
Kept == [tag |-> "Kept", id |-> -1]
Removed == [tag |-> "Removed", id |-> -1]
Modified(new_child) == [tag |-> "Modified", id |-> new_child]

NoPoint == [num |-> <<>>, den |-> 1]

EmptySlot ==
    [live |-> FALSE, parents |-> <<>>, is_point |-> FALSE, point |-> NoPoint,
     rank |-> 0, children |-> <<>>, slice_result |-> Unknown]

\* Polytope { parents, contents: Point(point), slice_result: Unknown }
PointPolytope(parents, point) ==
    [live |-> TRUE, parents |-> parents, is_point |-> TRUE, point |-> point,
     rank |-> 0, children |-> <<>>, slice_result |-> Unknown]

\* Polytope { parents, contents: Branch { rank, children }, slice_result: Unknown }
BranchPolytope(parents, rank, children) ==
    [live |-> TRUE, parents |-> parents, is_point |-> FALSE, point |-> NoPoint,
     rank |-> rank, children |-> children, slice_result |-> Unknown]

RECURSIVE Pow(_, _)
Pow(b, k) == IF k = 0 THEN 1 ELSE b * Pow(b, k - 1)

\* base_3_expansion that does not divide by 3 between the digits
Base3DigitNoShift(n, k) == n % 3

\* base_3_expansion(n, digit_count), digit k counted from 0
Base3Digit(n, k) == (n \div Pow(3, k)) % 3

\* the axes k in lo..n_dim-1, in order, whose digit of i is 1 (straddled
\* = TRUE) or is not 1 (straddled = FALSE)
RECURSIVE AxesOf(_, _, _, _)
AxesOf(i, lo, n_dim, straddled) ==
    IF lo >= n_dim THEN <<>>
    ELSE (IF (Base3Digit(i, lo) = 1) = straddled THEN <<lo>> ELSE <<>>)
             \o AxesOf(i, lo + 1, n_dim, straddled)

\* lines 96-101: two children along each straddled axis
RECURSIVE CubeChildren(_, _)
CubeChildren(i, axes) ==
    IF axes = <<>> THEN <<>>
    ELSE <<i - Pow(3, Head(axes)), i + Pow(3, Head(axes))>>
             \o CubeChildren(i, Tail(axes))

\* new_cube, lines 78-120: the i-th polytope pushed
CubePolytope(i, n_dim, radius) ==
    LET axes == 0..(n_dim - 1)
        rank == Cardinality({k \in axes : Base3Digit(i, k) = 1})
        straddled == AxesOf(i, 0, n_dim, TRUE)
        fixed == AxesOf(i, 0, n_dim, FALSE)
        parents == [j \in 1..Len(fixed) |->
                       i - Pow(3, fixed[j]) * Base3Digit(i, fixed[j]) + Pow(3, fixed[j])]
    IN  IF rank = 0
        THEN PointPolytope(parents,
                 IntVector([k \in 1..n_dim |-> (Base3Digit(i, k - 1) - 1) * radius]))
        ELSE BranchPolytope(parents, rank,
                 CubeChildren(i, straddled))

\* new_cube, lines 71-74 and 122
NewCubePolytopes(n_dim, radius) ==
    [k \in 1..Pow(3, n_dim) |-> CubePolytope(k - 1, n_dim, radius)]

NewCubeRoot(n_dim) == Pow(3, n_dim) \div 2


(***************************************************************************)
(* The arena while one call works on it: the slot table, whether the call  *)
(* has panicked, and whether a debug_assert_eq! on ranks has failed (which *)
(* panics only in a build with debug assertions).                          *)
(***************************************************************************)
Working(polys) == [polytopes |-> polys, panic |-> FALSE, debug_failed |-> FALSE]

Panic(S) == [S EXCEPT !.panic = TRUE]

\* Index<PolytopeId>: self[p] unwraps the slot
IsLive(polys, p) == p >= 0 /\ p < Len(polys) /\ polys[p + 1].live

\* push, lines 125-128
Push(S, polytope) == [S EXCEPT !.polytopes = Append(@, polytope)]

\* the id push returns
PushedId(S) == Len(S.polytopes)

\* push_point, lines 129-135
PushPoint(S, point) == Push(S, PointPolytope(<<>>, point))

\* lines 154-161: every child gets the new parent; the ranks are compared
RECURSIVE PushParents(_, _, _, _)
PushParents(S, children, parent, rank) ==
    IF children = <<>> THEN S
    ELSE LET child == Head(children)
         IN  IF ~IsLive(S.polytopes, child) THEN Panic(S)
             ELSE PushParents(
                     [S EXCEPT !.polytopes[child + 1].parents = Append(@, parent),
                               !.debug_failed =
                                   @ \/ S.polytopes[child + 1].rank + 1 # rank],
                     Tail(children), parent, rank)

\* push_polytope that gives the new branch the rank of its first child
PushPolytopeSameRank(S, children) ==
    IF children = <<>> THEN Panic(S)
    ELSE IF ~IsLive(S.polytopes, children[1]) THEN Panic(S)
    ELSE LET rank == S.polytopes[children[1] + 1].rank
             ret == PushedId(S)
         IN  PushParents(Push(S, BranchPolytope(<<>>, rank, children)),
                         children, ret, rank)

\* push_polytope, lines 136-163
PushPolytope(S, children) ==
    IF children = <<>> THEN Panic(S)
    ELSE IF ~IsLive(S.polytopes, children[1]) THEN Panic(S)
    ELSE LET rank == S.polytopes[children[1] + 1].rank + 1
             ret == PushedId(S)
         IN  PushParents(Push(S, BranchPolytope(<<>>, rank, children)),
                         children, ret, rank)

\* add_child that puts the child in front of the list
AddChildFront(S, parent, child) ==
    IF ~IsLive(S.polytopes, parent) \/ ~IsLive(S.polytopes, child) THEN Panic(S)
    ELSE IF S.polytopes[parent + 1].is_point THEN Panic(S)
    ELSE [S EXCEPT !.polytopes[parent + 1].children = <<child>> \o @,
                   !.polytopes[child + 1].parents = Append(@, parent)]

\* add_child, lines 164-173
AddChild(S, parent, child) ==
    IF ~IsLive(S.polytopes, parent) \/ ~IsLive(S.polytopes, child) THEN Panic(S)
    ELSE IF S.polytopes[parent + 1].is_point THEN Panic(S)
    ELSE [S EXCEPT !.polytopes[parent + 1].children = Append(@, child),
                   !.polytopes[child + 1].parents = Append(@, parent),
                   !.debug_failed =
                       @ \/ S.polytopes[parent + 1].rank
                               # S.polytopes[child + 1].rank + 1]

\* lines 245: the signed distance (pole - point) . pole
PoleDistance(pole, point) == VecDot(VecSub(pole, point), pole)

\* the classification of a point without the tolerance: distance >= 0
SlicePointExact(pole, point) ==
    LET s == PoleDistance(pole, point)
    IN  IF s.d > 0 /\ s.n >= 0 THEN Kept ELSE Removed

\* the classification of a point with the hyperplane's sides exchanged
SlicePointFlipped(pole, point) ==
    IF GreaterThanMinusEpsilon(ScalarNeg(PoleDistance(pole, point)))
    THEN Kept ELSE Removed

\* lines 244-250: the classification of a point
SlicePoint(pole, point) ==
    IF GreaterThanMinusEpsilon(PoleDistance(pole, point)) THEN Kept ELSE Removed

\* lines 281-286: the point where the edge from a to b meets the hyperplane
EdgeIntersection(pole, a, b) ==
    LET a_distance == PoleDistance(pole, a)
        b_distance == ScalarNeg(PoleDistance(pole, b))
        sum == ScalarAdd(a_distance, b_distance)
    IN  VecNormal(VecDiv(VecAdd(VecScale(b, a_distance), VecScale(a, b_distance)),
                         sum))

\* slice_polytope, lines 238-298, and the filter closure of lines 255-267
\* applied to the children not yet visited
RECURSIVE SlicePolytope(_, _, _)
RECURSIVE SliceChildren(_, _, _, _, _)

SliceChildren(S, rest, pole, new_children, intersection_boundary) ==
    IF rest = <<>> \/ S.panic
    THEN [st |-> S, new_children |-> new_children,
          intersection_boundary |-> intersection_boundary]
    ELSE LET child == Head(rest)
             r == SlicePolytope(S, child, pole)
         IN  IF r.st.panic \/ r.ret.tag = "Unknown"
             THEN [st |-> Panic(r.st), new_children |-> new_children,
                   intersection_boundary |-> intersection_boundary]
             ELSE IF r.ret.tag = "Kept"
             THEN SliceChildren(r.st, Tail(rest), pole,
                                Append(new_children, child), intersection_boundary)
             ELSE IF r.ret.tag = "Removed"
             THEN SliceChildren(r.st, Tail(rest), pole,
                                new_children, intersection_boundary)
             ELSE SliceChildren(r.st, Tail(rest), pole,
                                Append(new_children, child),
                                Append(intersection_boundary, r.ret.id))

\* the cut that hands push_polytope no children
SliceModifiedEmptyBoundary(S, p, pole, rank, old_children, intersection_boundary) ==
    LET polys == S.polytopes
        pushed ==
            IF rank = 1
            THEN PushPoint(S, EdgeIntersection(pole,
                                  polys[old_children[1] + 1].point,
                                  polys[old_children[2] + 1].point))
            ELSE PushPolytope(S, <<>>)
        new_child == PushedId(S)
    IN  IF pushed.panic THEN [st |-> pushed, ret |-> Unknown]
        ELSE [st |-> AddChild(
                        [pushed EXCEPT !.polytopes[new_child + 1].slice_result = Kept],
                        p, new_child),
              ret |-> Modified(new_child)]

\* the cut that leaves the new boundary element unclassified
SliceModifiedUnmarked(S, p, pole, rank, old_children, intersection_boundary) ==
    LET polys == S.polytopes
        pushed ==
            IF rank = 1
            THEN PushPoint(S, EdgeIntersection(pole,
                                  polys[old_children[1] + 1].point,
                                  polys[old_children[2] + 1].point))
            ELSE PushPolytope(S, intersection_boundary)
        new_child == PushedId(S)
    IN  IF pushed.panic THEN [st |-> pushed, ret |-> Unknown]
        ELSE [st |-> AddChild(pushed, p, new_child), ret |-> Modified(new_child)]

\* lines 280-292: the branch p is cut: build the new boundary element
SliceModified(S, p, pole, rank, old_children, intersection_boundary) ==
    LET polys == S.polytopes
        pushed ==
            IF rank = 1
            THEN IF \/ Len(old_children) < 2
                    \/ ~IsLive(polys, old_children[1])
                    \/ ~IsLive(polys, old_children[2])
                    \/ ~polys[old_children[1] + 1].is_point
                    \/ ~polys[old_children[2] + 1].is_point
                 THEN Panic(S)
                 ELSE PushPoint(S, EdgeIntersection(pole,
                                      polys[old_children[1] + 1].point,
                                      polys[old_children[2] + 1].point))
            ELSE PushPolytope(S, intersection_boundary)
        new_child == PushedId(S)
    IN  IF pushed.panic THEN [st |-> pushed, ret |-> Unknown]
        ELSE [st |-> AddChild(
                        [pushed EXCEPT !.polytopes[new_child + 1].slice_result = Kept],
                        p, new_child),
              ret |-> Modified(new_child)]

\* the recursive pass that classifies a node again each time it is reached
SlicePolytopeNoMemo(S, p, pole) ==
    IF S.panic THEN [st |-> S, ret |-> Unknown]
    ELSE IF ~IsLive(S.polytopes, p) THEN [st |-> Panic(S), ret |-> Unknown]
    ELSE IF S.polytopes[p + 1].is_point
    THEN LET ret == SlicePoint(pole, S.polytopes[p + 1].point)
         IN  [st |-> [S EXCEPT !.polytopes[p + 1].slice_result = ret], ret |-> ret]
    ELSE LET rank == S.polytopes[p + 1].rank
             old_children == S.polytopes[p + 1].children
             visited == SliceChildren(S, old_children, pole, <<>>, <<>>)
             removed == Len(visited.new_children) = 0
             S1 == [visited.st EXCEPT !.polytopes[p + 1].children =
                                          visited.new_children]
             out == IF removed THEN [st |-> S1, ret |-> Removed]
                    ELSE IF \A k \in 1..Len(old_children) :
                               S1.polytopes[old_children[k] + 1].slice_result = Kept
                    THEN [st |-> S1, ret |-> Kept]
                    ELSE SliceModified(S1, p, pole, rank, old_children,
                                       visited.intersection_boundary)
         IN  IF visited.st.panic THEN [st |-> visited.st, ret |-> Unknown]
             ELSE IF out.st.panic THEN out
             ELSE [st |-> [out.st EXCEPT !.polytopes[p + 1].slice_result = out.ret],
                   ret |-> out.ret]

SlicePolytope(S, p, pole) ==
    IF S.panic THEN [st |-> S, ret |-> Unknown]
    ELSE IF ~IsLive(S.polytopes, p) THEN [st |-> Panic(S), ret |-> Unknown]
    ELSE IF S.polytopes[p + 1].slice_result # Unknown
    THEN [st |-> S, ret |-> S.polytopes[p + 1].slice_result]
    ELSE IF S.polytopes[p + 1].is_point
    THEN LET ret == SlicePoint(pole, S.polytopes[p + 1].point)
         IN  [st |-> [S EXCEPT !.polytopes[p + 1].slice_result = ret], ret |-> ret]
    ELSE LET rank == S.polytopes[p + 1].rank
             old_children == S.polytopes[p + 1].children
             visited == SliceChildren(S, old_children, pole, <<>>, <<>>)
             removed == Len(visited.new_children) = 0
             S1 == [visited.st EXCEPT !.polytopes[p + 1].children =
                                          visited.new_children]
             out == IF removed THEN [st |-> S1, ret |-> Removed]
                    ELSE IF \A k \in 1..Len(old_children) :
                               S1.polytopes[old_children[k] + 1].slice_result = Kept
                    THEN [st |-> S1, ret |-> Kept]
                    ELSE SliceModified(S1, p, pole, rank, old_children,
                                       visited.intersection_boundary)
         IN  IF visited.st.panic THEN [st |-> visited.st, ret |-> Unknown]
             ELSE IF out.st.panic THEN out
             ELSE [st |-> [out.st EXCEPT !.polytopes[p + 1].slice_result = out.ret],
                   ret |-> out.ret]

\* the sweep that resets the Removed slots instead of emptying them
RECURSIVE SweepFromNoRemove(_, _)
SweepFromNoRemove(S, k) ==
    IF k > Len(S.polytopes) THEN S
    ELSE LET slot == S.polytopes[k]
         IN  IF ~slot.live THEN SweepFromNoRemove(S, k + 1)
             ELSE IF slot.slice_result = Unknown THEN Panic(S)
             ELSE SweepFromNoRemove(
                     [S EXCEPT !.polytopes[k].slice_result = Unknown], k + 1)

\* the sweep that empties the Modified slots as well as the Removed ones
SweepFromModifiedToo(S, k) ==
    [S EXCEPT !.polytopes =
        [j \in 1..Len(S.polytopes) |->
            IF j < k \/ ~S.polytopes[j].live THEN S.polytopes[j]
            ELSE IF S.polytopes[j].slice_result.tag \in {"Removed", "Modified"}
            THEN EmptySlot
            ELSE [S.polytopes[j] EXCEPT !.slice_result = Unknown]]]

\* the sweep that resets the Kept slots only and leaves Modified(_) in place
SweepFromKeepModified(S, k) ==
    [S EXCEPT !.polytopes =
        [j \in 1..Len(S.polytopes) |->
            IF j < k \/ ~S.polytopes[j].live THEN S.polytopes[j]
            ELSE IF S.polytopes[j].slice_result = Removed THEN EmptySlot
            ELSE IF S.polytopes[j].slice_result = Kept
            THEN [S.polytopes[j] EXCEPT !.slice_result = Unknown]
            ELSE S.polytopes[j]]]

\* the sweep that also drops the empty slots at the end of the table
SweepFromTruncate(S, k) ==
    LET n == Len(S.polytopes)
        swept == [j \in 1..n |->
                     IF j < k \/ ~S.polytopes[j].live THEN S.polytopes[j]
                     ELSE IF S.polytopes[j].slice_result = Removed THEN EmptySlot
                     ELSE [S.polytopes[j] EXCEPT !.slice_result = Unknown]]
        last == CHOOSE m \in 0..n :
                    /\ \A j \in (m + 1)..n : ~swept[j].live
                    /\ m = 0 \/ swept[m].live
    IN  [S EXCEPT !.polytopes = SubSeq(swept, 1, last)]

\* slice_by_plane, lines 221-235: the sweep over the slots, in order; it
\* panics at the first live slot that is still Unknown
SweepFrom(S, k) ==
    LET n == Len(S.polytopes)
        orphans == {j \in k..n : S.polytopes[j].live
                                    /\ S.polytopes[j].slice_result = Unknown}
        stop == IF orphans = {} THEN n + 1
                ELSE CHOOSE j \in orphans : \A i \in orphans : j <= i
        swept == [j \in 1..n |->
                     IF j < k \/ j >= stop \/ ~S.polytopes[j].live THEN S.polytopes[j]
                     ELSE IF S.polytopes[j].slice_result = Removed THEN EmptySlot
                     ELSE [S.polytopes[j] EXCEPT !.slice_result = Unknown]]
    IN  IF orphans = {} THEN [S EXCEPT !.polytopes = swept]
        ELSE Panic([S EXCEPT !.polytopes = swept])


\* slice_by_plane, lines 218-236: the recursive pass from the root, then the
\* sweep; a call on an arena whose owner has panicked is never made
SliceByPlane(S, rt, pole) ==
    IF S.panic THEN S
    ELSE CHOOSE out \in {IF r.st.panic THEN r.st ELSE SweepFrom(r.st, 1) :
                          r \in {SlicePolytope(S, rt, pole)}} : TRUE

(***************************************************************************)
(* polygons(), polytope.rs lines 175-216.                                  *)
(***************************************************************************)
\* lines 176-179: the position of the first live rank-2 slot at or after
\* from, or 0 when the iterator is exhausted
NextFace(polys, from) ==
    LET faces == {k \in from..Len(polys) : polys[k].live /\ polys[k].rank = 2}
    IN  IF faces = {} THEN 0
        ELSE CHOOSE k \in faces : \A j \in faces : k <= j

\* lines 186-190: self[edge].children() is indexed at 0 and 1 for every
\* edge of the polygon; an empty slot or a shorter child list panics
RECURSIVE AdjacencyPanics(_, _)
AdjacencyPanics(polys, edge_list) ==
    IF edge_list = <<>> THEN FALSE
    ELSE \/ ~IsLive(polys, Head(edge_list))
         \/ Len(polys[Head(edge_list) + 1].children) < 2
         \/ AdjacencyPanics(polys, Tail(edge_list))

\* lines 185-193: the adjacency list of v, in the order the entries are
\* pushed: per edge (ch[0], ch[1]) first, then (ch[1], ch[0])
RECURSIVE Neighbors(_, _, _)
Neighbors(polys, edge_list, v) ==
    IF edge_list = <<>> THEN <<>>
    ELSE LET ch == polys[Head(edge_list) + 1].children
         IN  (IF ch[1] = v THEN <<ch[2]>> ELSE <<>>)
                 \o (IF ch[2] = v THEN <<ch[1]>> ELSE <<>>)
                 \o Neighbors(polys, Tail(edge_list), v)

\* find that takes the first neighbour, the one just visited or not
FindFirst(neighbors, prev) ==
    IF neighbors = <<>> THEN -1 ELSE Head(neighbors)

\* lines 201-207: .find(|&v| v != prev), -1 for None
RECURSIVE FindNotPrev(_, _)
FindNotPrev(neighbors, prev) ==
    IF neighbors = <<>> THEN -1
    ELSE IF Head(neighbors) # prev THEN Head(neighbors)
    ELSE FindNotPrev(Tail(neighbors), prev)

\* self[v].unwrap_point() succeeds
IsPoint(polys, v) == IsLive(polys, v) /\ polys[v + 1].is_point

\* Polygon { verts }: the coordinates of the walked points; ids keeps the
\* handles they were read from
Polygon(polys, ids) ==
    [ids |-> ids, verts |-> [i \in 1..Len(ids) |-> polys[ids[i] + 1].point]]

(***************************************************************************)
(* State of a PolytopeArena across new_cube and slice_by_plane calls.      *)
(***************************************************************************)
\* Largest dimension of the cube new_cube builds.
MaxCubeNdim == 3
\* Most slice_by_plane calls on one arena.
MaxSlices == 2

CubeRadii == {1, 2}

\* A pole so short that the corners of the radius 1 cube lie beyond its
\* hyperplane by less than EPSILON.
NearPole == [num |-> <<1>>, den |-> EPSILON_INV + 1]

\* vector![f32::NAN]: every comparison with its distances is false
NaNPole == [num |-> <<0>>, den |-> 0]

\* A short pole for which the corner (-1, 1) of the radius 1 square lies
\* beyond the hyperplane by less than EPSILON and the corner (-1, -1) by
\* more.
SlantedNearPole == [num |-> <<-3, -2>>, den |-> EPSILON_INV + 1]

\* A pole whose hyperplane x + 2y = 5/3 has the corner (-1, 1) on the origin
\* side and the corner (1, 1) beyond it.
SteepPole == [num |-> <<1, 2>>, den |-> 3]

Poles ==
    {IntVector(<<1>>), IntVector(<<0, 1>>), IntVector(<<1, 1>>),
     IntVector(<<-1, -1>>), IntVector(<<3, 0>>), IntVector(<<1, 1, 1>>),
     IntVector(<<0, 0>>), [num |-> <<3, 3>>, den |-> 2], NearPole, NaNPole,
     SlantedNearPole, SteepPole}

\* The poles of the call after done earlier calls.  SlantedNearPole is the
\* pole of a first call only: the fractions of its cuts of an arena that
\* was cut before have denominators beyond the integers used here.
PolesOfCall(done) == IF done = 0 THEN Poles ELSE Poles \ {SlantedNearPole}


\* The group part while the arena is exercised, and the arena part while a
\* group is built.
IdleGroup ==
    /\ generators = <<>>
    /\ ndim = 0
    /\ generator_count = 0
    /\ elem_matrices = <<MatrixIdent(0)>>
    /\ elem_decompositions = << <<>> >>
    /\ elem_successors = <<>>
    /\ elem_inverses = <<IDENT>>
    /\ next_unprocessed = 0
    /\ gen_i = 0
    /\ inv_elem_cursor = 0
    /\ pc = "idle"

IdleArena ==
    /\ cube_ndim = 0
    /\ cube_radius = 1
    /\ polytopes = NewCubePolytopes(0, 1)
    /\ root = NewCubeRoot(0)
    /\ arena_pc = "unused"
    /\ slice_pole = IntVector(<<>>)
    /\ prev_pole = IntVector(<<>>)
    /\ pre_polytopes = polytopes
    /\ debug_failed = FALSE
    /\ slices_done = 0

IdleMul ==
    /\ mul_lhs = EMPTY_IDENT
    /\ mul_rhs = EMPTY_IDENT
    /\ mul_out = EMPTY_IDENT
    /\ mul_pc = "unused"

IdleOrder ==
    /\ ord_ndim = 0
    /\ ord_radius = 1
    /\ ord_p = IntVector(<<>>)
    /\ ord_q = IntVector(<<>>)
    /\ ord_pq = Working(NewCubePolytopes(0, 1))
    /\ ord_qp = Working(NewCubePolytopes(0, 1))
    /\ ord_pc = "unused"

IdlePolygons ==
    /\ pg_polytopes = NewCubePolytopes(0, 1)
    /\ pg_slot = 1
    /\ pg_first = 0
    /\ pg_prev = 0
    /\ pg_current = 0
    /\ pg_verts = <<>>
    /\ pg_out = <<>>
    /\ pg_pc = "unused"

\* A value the demo stores without looking inside it, named by the call that
\* produced it and the arguments of the call.
CallResult(call, n_dim, xs, pole_list) ==
    [call |-> call, ndim |-> n_dim, edges |-> xs, poles |-> pole_list]

\* vec![], demo.rs lines 20 and 29
EmptyVec == CallResult("vec![]", 0, <<>>, <<>>)

\* the demo window before anything is typed or clicked, demo.rs lines 19-30
\* with an empty diagram field
IdleDemo ==
    /\ demo_cd = <<>>
    /\ demo_cd_error = FALSE
    /\ demo_ndim = 3
    /\ demo_poles = <<IntVector(<<1>>)>>
    /\ demo_polygons = EmptyVec
    /\ demo_arrows = EmptyVec
    /\ demo_calls = <<>>
    /\ demo_last = "none"
    /\ demo_pre = [polygons |-> EmptyVec, ndim |-> 3, arrows |-> EmptyVec]

IdleShape ==
    /\ sg_ndim = 0
    /\ sg_generators = <<>>
    /\ sg_base_facets = <<>>
    /\ sg_arena = Working(NewCubePolytopes(0, 1))
    /\ sg_facet_poles = <<>>
    /\ sg_next_unprocessed = 0
    /\ sg_gen = 1
    /\ sg_slice = 1
    /\ sg_pc = "unused"

IdleCut ==
    /\ cut_pole = <<>>
    /\ cut_a = <<>>
    /\ cut_b = <<>>
    /\ cut_a_result = Unknown
    /\ cut_b_result = Unknown
    /\ cut_a_distance = F32Zero
    /\ cut_b_distance = F32Zero
    /\ cut_sum = F32Zero
    /\ cut_point = <<>>
    /\ cut_pc = "unused"

IdleGenerate ==
    /\ gg_generators = <<>>
    /\ gg_ndim = 0
    /\ gg_ret = <<>>
    /\ gg_queue = <<>>
    /\ gg_pc = "unused"

IdleOutsideCut ==
    IdleGroup /\ IdleArena /\ IdleMul /\ IdleOrder /\ IdlePolygons /\ IdleDemo /\ IdleShape
        /\ IdleGenerate
IdleOutsideGenerate ==
    IdleArena /\ IdleMul /\ IdleOrder /\ IdlePolygons /\ IdleDemo /\ IdleShape /\ IdleCut

IdleOutsideGroup ==
    IdleArena /\ IdleMul /\ IdleOrder /\ IdlePolygons /\ IdleDemo /\ IdleShape /\ IdleCut
        /\ IdleGenerate
IdleOutsideArena ==
    IdleGroup /\ IdleMul /\ IdleOrder /\ IdlePolygons /\ IdleDemo /\ IdleShape /\ IdleCut
        /\ IdleGenerate
IdleOutsideMul ==
    IdleGroup /\ IdleArena /\ IdleOrder /\ IdlePolygons /\ IdleDemo /\ IdleShape /\ IdleCut
        /\ IdleGenerate
IdleOutsideOrder ==
    IdleGroup /\ IdleArena /\ IdleMul /\ IdlePolygons /\ IdleDemo /\ IdleShape /\ IdleCut
        /\ IdleGenerate
IdleOutsidePolygons ==
    IdleGroup /\ IdleArena /\ IdleMul /\ IdleOrder /\ IdleDemo /\ IdleShape /\ IdleCut
        /\ IdleGenerate
IdleOutsideDemo ==
    IdleGroup /\ IdleArena /\ IdleMul /\ IdleOrder /\ IdlePolygons /\ IdleShape /\ IdleCut
        /\ IdleGenerate
IdleOutsideShape ==
    IdleGroup /\ IdleArena /\ IdleMul /\ IdleOrder /\ IdleDemo /\ IdleCut
        /\ IdleGenerate

(***************************************************************************)
(* Group::from_generators as a state machine: one step per iteration of    *)
(* the inner loop of the closure and per element of the inverse loop.      *)
(***************************************************************************)
\* lines 41-50: the state when the closure loop is first reached
InitGroup ==
    /\ generators \in GeneratorLists
    /\ ndim = MaxNdim(generators)
    /\ generator_count = Len(generators)
    /\ elem_matrices = <<MatrixIdent(ndim)>>
    /\ elem_decompositions = << <<>> >>
    /\ elem_successors = [i \in 1..Len(generators) |-> <<>>]
    /\ elem_inverses = [k \in 1..(Len(generators) + 1) |-> IDENT]
    /\ next_unprocessed = 0
    /\ gen_i = 0
    /\ inv_elem_cursor = 0
    /\ pc = "closure"
    /\ IdleOutsideGroup

\* line 57: the candidate matrix of the current inner iteration
Candidate == MatrixMul(matrix(next_unprocessed), generators[gen_i + 1])

\* FindPosition searching elem_matrices[2..] instead of elem_matrices[1..]
FindPositionSkipFirst(m) ==
    LET hits == {j \in 1..(order - 2) : MatrixApproxEq(elem_matrices[j + 2], m)}
    IN  IF hits = {} THEN -1
        ELSE CHOOSE j \in hits : \A k \in hits : j <= k

\* FindPosition that never recognises a stored element
FindPositionNone(m) == -1

\* lines 64-66: position in elem_matrices[1..] of the first stored element
\* approximately equal to m
FindPosition(m) ==
    LET hits == {j \in 0..(order - 2) : MatrixApproxEq(elem_matrices[j + 2], m)}
    IN  IF hits = {} THEN -1
        ELSE CHOOSE j \in hits : \A k \in hits : j <= k

InClosureIteration ==
    /\ pc = "closure"
    /\ next_unprocessed < order
    /\ gen_i < Len(generators)

\* lines 80-83: record the successor and move to the next iteration
PushSuccessor(successor_element) ==
    /\ elem_successors' =
          [elem_successors EXCEPT ![gen_i + 1] = Append(@, successor_element)]
    /\ IF gen_i + 1 = Len(generators)
       THEN next_unprocessed' = next_unprocessed + 1 /\ gen_i' = 0
       ELSE next_unprocessed' = next_unprocessed /\ gen_i' = gen_i + 1

\* the handle of position j without the offset of the skipped identity
ExistingHandleNoOffset(j) == j

\* line 69: GroupElement(j as u32 + 1)
ExistingHandle(j) == j + 1

\* lines 59-63: e * gen = I
ClosureIdent ==
    /\ InClosureIteration
    /\ \E m \in {Candidate} :
          /\ MatrixApproxEq(m, EMPTY_IDENT)
          /\ elem_inverses' = [elem_inverses EXCEPT ![gen_i + 2] = next_unprocessed]
          /\ PushSuccessor(IDENT)
    /\ UNCHANGED <<outsideGroup, generators, ndim, generator_count, elem_matrices,
                   elem_decompositions, inv_elem_cursor, pc>>

\* lines 64-69: e * gen = existing element
ClosureExisting ==
    /\ InClosureIteration
    /\ \E m \in {Candidate} : \E j \in {FindPosition(m)} :
          /\ ~MatrixApproxEq(m, EMPTY_IDENT)
          /\ j >= 0
          /\ PushSuccessor(ExistingHandle(j))
    /\ UNCHANGED <<outsideGroup, generators, ndim, generator_count, elem_matrices,
                   elem_decompositions, elem_inverses, inv_elem_cursor, pc>>

\* lines 70-78: e * gen = new element
ClosureNew ==
    /\ InClosureIteration
    /\ order < MaxOrder
    /\ \E m \in {Candidate} : \E j \in {FindPosition(m)} :
          /\ ~MatrixApproxEq(m, EMPTY_IDENT)
          /\ j < 0
          /\ elem_matrices' = Append(elem_matrices, m)
          /\ elem_decompositions' =
                Append(elem_decompositions,
                       Append(decompose(next_unprocessed), gen_i + 1))
          /\ PushSuccessor(Len(elem_matrices))
    /\ UNCHANGED <<outsideGroup, generators, ndim, generator_count, elem_inverses,
                   inv_elem_cursor, pc>>

\* lines 51-84 with no generator: the inner loop has no iteration
ClosureNoGenerator ==
    /\ pc = "closure"
    /\ next_unprocessed < order
    /\ Len(generators) = 0
    /\ next_unprocessed' = next_unprocessed + 1
    /\ UNCHANGED <<outsideGroup, generators, ndim, generator_count, elem_matrices,
                   elem_decompositions, elem_successors, elem_inverses,
                   gen_i, inv_elem_cursor, pc>>

\* lines 51, 88-90: the closure loop ends, the inverse table is resized
ClosureExit ==
    /\ pc = "closure"
    /\ next_unprocessed >= order
    /\ elem_inverses' = Resize(elem_inverses, order, IDENT)
    /\ inv_elem_cursor' = generator_count + 1
    /\ pc' = "inverses"
    /\ UNCHANGED <<outsideGroup, generators, ndim, generator_count, elem_matrices,
                   elem_decompositions, elem_successors, next_unprocessed, gen_i>>

\* lines 90-91: the element already has an inverse
InverseKnown ==
    /\ pc = "inverses"
    /\ inv_elem_cursor < order
    /\ inverse(inv_elem_cursor) # IDENT
    /\ inv_elem_cursor' = inv_elem_cursor + 1
    /\ UNCHANGED <<outsideGroup, generators, ndim, generator_count, elem_matrices,
                   elem_decompositions, elem_successors, elem_inverses,
                   next_unprocessed, gen_i, pc>>

\* lines 91-103: derive the inverse; assert_ne aborts the construction
InverseDerive ==
    /\ pc = "inverses"
    /\ inv_elem_cursor < order
    /\ inverse(inv_elem_cursor) = IDENT
    /\ LET elem == inv_elem_cursor
           inv_elem == InverseFold(IDENT, Reverse(decompose(elem)))
       IN  IF inv_elem = IDENT
           THEN /\ pc' = "aborted"
                /\ UNCHANGED <<elem_inverses, inv_elem_cursor>>
           ELSE /\ elem_inverses' =
                      [[elem_inverses EXCEPT ![elem + 1] = inv_elem]
                          EXCEPT ![inv_elem + 1] = elem]
                /\ inv_elem_cursor' = inv_elem_cursor + 1
                /\ pc' = pc
    /\ UNCHANGED <<outsideGroup, generators, ndim, generator_count, elem_matrices,
                   elem_decompositions, elem_successors, next_unprocessed, gen_i>>

\* line 106: from_generators returns
Return ==
    /\ pc = "inverses"
    /\ inv_elem_cursor >= order
    /\ pc' = "done"
    /\ UNCHANGED <<outsideGroup, generators, ndim, generator_count, elem_matrices,
                   elem_decompositions, elem_successors, elem_inverses,
                   next_unprocessed, gen_i, inv_elem_cursor>>

NextGroup ==
    \/ ClosureIdent
    \/ ClosureExisting
    \/ ClosureNew
    \/ ClosureNoGenerator
    \/ ClosureExit
    \/ InverseKnown
    \/ InverseDerive
    \/ Return



(***************************************************************************)
(* generate_group (lib.rs lines 51-64) as a state machine, one step per    *)
(* iteration of the while loop.  It is called on the list that was handed  *)
(* to from_generators once that call has returned: the two functions share *)
(* no state, so running one after the other loses no behaviour of either.  *)
(***************************************************************************)
\* line 52: the largest dimension of a generator, 1 for an empty list
GenerateNdim(gens) == IF gens = <<>> THEN 1 ELSE MaxNdim(gens)

\* the products gen * next in the order of the generators
QueueProductsLeft(next, gens) ==
    [i \in 1..Len(gens) |-> MatrixMul(gens[i], next)]

\* lines 57-59: the products next * gen in the order of the generators
QueueProducts(next, gens) ==
    [i \in 1..Len(gens) |-> MatrixMul(next, gens[i])]

\* lines 51-54: generate_group is called and reaches its loop
GenerateCall ==
    /\ pc = "done"
    /\ gg_pc = "unused"
    /\ gg_generators' = generators
    /\ gg_ndim' = GenerateNdim(generators)
    /\ gg_ret' = <<>>
    /\ gg_queue' = <<MatrixIdent(GenerateNdim(generators))>>
    /\ gg_pc' = "loop"
    /\ UNCHANGED <<outsideGenerate, groupVars>>

\* line 56: no matrix of ret is approximately equal to next
IsNewMatrix(next) ==
    \A k \in 1..Len(gg_ret) : ~MatrixApproxEq(gg_ret[k], next)

\* lines 55-61: the popped matrix is new
GenerateNew ==
    /\ gg_pc = "loop"
    /\ gg_queue # <<>>
    /\ Len(gg_ret) < MaxOrder
    /\ \E next \in {Head(gg_queue)} :
          /\ IsNewMatrix(next)
          /\ gg_queue' = Tail(gg_queue) \o QueueProducts(next, gg_generators)
          /\ gg_ret' = Append(gg_ret, next)
    /\ UNCHANGED <<outsideGenerate, groupVars, gg_generators, gg_ndim, gg_pc>>

\* lines 55-56: the popped matrix is already in ret
GenerateOld ==
    /\ gg_pc = "loop"
    /\ gg_queue # <<>>
    /\ ~IsNewMatrix(Head(gg_queue))
    /\ gg_queue' = Tail(gg_queue)
    /\ UNCHANGED <<outsideGenerate, groupVars, gg_generators, gg_ndim, gg_ret, gg_pc>>

\* lines 55, 63: the queue is empty, generate_group returns ret
GenerateReturn ==
    /\ gg_pc = "loop"
    /\ gg_queue = <<>>
    /\ gg_pc' = "done"
    /\ UNCHANGED <<outsideGenerate, groupVars, gg_generators, gg_ndim, gg_ret, gg_queue>>

NextGenerate ==
    \/ ClosureIdent
    \/ ClosureExisting
    \/ ClosureNew
    \/ ClosureNoGenerator
    \/ ClosureExit
    \/ InverseKnown
    \/ InverseDerive
    \/ Return
    \/ GenerateCall
    \/ GenerateNew
    \/ GenerateOld
    \/ GenerateReturn

(***************************************************************************)
(* new_cube and slice_by_plane as a state machine: slice_by_plane is the   *)
(* recursive pass followed by the sweep.                                   *)
(***************************************************************************)
\* PolytopeArena::new_cube(cube_ndim, cube_radius) has returned
InitArena ==
    /\ cube_ndim \in 0..MaxCubeNdim
    /\ cube_radius \in CubeRadii
    /\ polytopes = NewCubePolytopes(cube_ndim, cube_radius)
    /\ root = NewCubeRoot(cube_ndim)
    /\ arena_pc = "idle"
    /\ slice_pole = IntVector(<<>>)
    /\ prev_pole = IntVector(<<>>)
    /\ pre_polytopes = polytopes
    /\ debug_failed = FALSE
    /\ slices_done = 0
    /\ IdleOutsideArena

\* slice_by_plane, line 219: the recursive pass from the root
SlicePass ==
    /\ arena_pc = "idle"
    /\ slices_done < MaxSlices
    /\ \E pole \in PolesOfCall(slices_done) :
          LET r == SlicePolytope(Working(polytopes), root, pole)
          IN  /\ slice_pole' = pole
              /\ prev_pole' = slice_pole
              /\ pre_polytopes' = polytopes
              /\ polytopes' = r.st.polytopes
              /\ debug_failed' = (debug_failed \/ r.st.debug_failed)
              /\ arena_pc' = IF r.st.panic THEN "panicked" ELSE "sliced"
    /\ slices_done' = slices_done + 1
    /\ UNCHANGED <<outsideArena, cube_ndim, cube_radius, root>>

\* slice_by_plane, lines 221-235: remove dead polytopes, reset slice results
Sweep ==
    /\ arena_pc = "sliced"
    /\ LET r == SweepFrom(Working(polytopes), 1)
       IN  /\ polytopes' = r.polytopes
           /\ arena_pc' = IF r.panic THEN "panicked" ELSE "idle"
    /\ UNCHANGED <<outsideArena, cube_ndim, cube_radius, root, slice_pole, prev_pole,
                   pre_polytopes,
                   debug_failed, slices_done>>

NextArena ==
    \/ SlicePass
    \/ Sweep

(***************************************************************************)
(* One multiplication &self * &rhs (matrix.rs lines 212-232).              *)
(***************************************************************************)
\* m1 and m2 of tests::test_matrix_multiply, and a square that is not symmetric
TestM1 == [ndim |-> 4, elems |-> <<1, 2, 0, 0, 0, 1, 1, 0, 1, 1, 1, 0, 0, 0, 0, -3>>]
TestM2 == [ndim |-> 3, elems |-> <<1, 2, 4, 2, 3, 2, 1, 1, 2>>]
Square2 == [ndim |-> 2, elems |-> <<1, 2, 3, 4>>]

MulOperands ==
    GeneratorPool \cup {MatrixIdent(0), MatrixIdent(2), TestM1, TestM2, Square2}

InitMul ==
    /\ mul_lhs \in MulOperands
    /\ mul_rhs \in MulOperands
    /\ mul_out = EMPTY_IDENT
    /\ mul_pc = "ready"
    /\ IdleOutsideMul

Multiply ==
    /\ mul_pc = "ready"
    /\ mul_out' = MatrixMul(mul_lhs, mul_rhs)
    /\ mul_pc' = "done"
    /\ UNCHANGED <<outsideMul, mul_lhs, mul_rhs>>

NextMul ==
    \/ Multiply

(***************************************************************************)
(* Two arenas built by the same new_cube call, sliced by two poles in the  *)
(* two orders (the loop of shape_geom, polytope.rs lines 34-36, over two   *)
(* orderings of the same pole list).                                       *)
(***************************************************************************)
InitOrder ==
    /\ ord_ndim \in 0..MaxCubeNdim
    /\ ord_radius \in CubeRadii
    /\ ord_p \in Poles
    /\ ord_q \in Poles
    /\ ord_pq = Working(NewCubePolytopes(ord_ndim, ord_radius))
    /\ ord_qp = Working(NewCubePolytopes(ord_ndim, ord_radius))
    /\ ord_pc = "ready"
    /\ IdleOutsideOrder

\* slice_by_plane(p) then slice_by_plane(q) on the first arena
SlicePThenQ ==
    /\ ord_pc = "ready"
    /\ \E a \in {SliceByPlane(ord_pq, NewCubeRoot(ord_ndim), ord_p)} :
           \E b \in {SliceByPlane(a, NewCubeRoot(ord_ndim), ord_q)} : ord_pq' = b
    /\ ord_pc' = "first"
    /\ UNCHANGED <<outsideOrder, ord_ndim, ord_radius, ord_p, ord_q, ord_qp>>

\* slice_by_plane(q) then slice_by_plane(p) on the second arena
SliceQThenP ==
    /\ ord_pc = "first"
    /\ \E a \in {SliceByPlane(ord_qp, NewCubeRoot(ord_ndim), ord_q)} :
           \E b \in {SliceByPlane(a, NewCubeRoot(ord_ndim), ord_p)} : ord_qp' = b
    /\ ord_pc' = "done"
    /\ UNCHANGED <<outsideOrder, ord_ndim, ord_radius, ord_p, ord_q, ord_pq>>

NextOrder ==
    \/ SlicePThenQ
    \/ SliceQThenP

(***************************************************************************)
(* One call of polygons() (polytope.rs lines 175-216): one step per        *)
(* polygon begun, per iteration of the while loop and per polygon          *)
(* finished.  The arenas offered are cubes cut by slice_by_plane, and slot *)
(* tables built by hand as a test inside polytope.rs can build them: six   *)
(* points, a list of edges between them and one rank-2 node over the       *)
(* edges, whether or not the edges form a polygon.                         *)
(***************************************************************************)
\* Largest dimension of the cubes polygons() is called on.
MaxPolygonNdim == 3
\* Most edges of a rank-2 node built by hand.
MaxEdges == 6
\* Most points the while loop may push for one polygon.
MaxWalk == 8

PolygonPoles ==
    {IntVector(<<1>>), IntVector(<<1, 1, 1>>), [num |-> <<3, 3>>, den |-> 2],
     IntVector(<<0, -1>>)}

RECURSIVE SliceAll(_, _, _)
SliceAll(S, rt, pole_list) ==
    IF pole_list = <<>> THEN S
    ELSE SliceAll(SliceByPlane(S, rt, Head(pole_list)), rt, Tail(pole_list))

SlicedArenas ==
    {SliceAll(Working(NewCubePolytopes(n, 2)), NewCubeRoot(n), pole_list).polytopes :
        n \in 0..MaxPolygonNdim, pole_list \in SeqsUpTo(PolygonPoles, MaxSlices)}

HandVertexIds == 0..5

\* the pairs <<a, b>> with a < b over HandVertexIds, in lexicographic order
RECURSIVE PairSeq(_, _)
PairSeq(a, b) ==
    IF a + 1 \notin HandVertexIds THEN <<>>
    ELSE IF b \notin HandVertexIds THEN PairSeq(a + 1, a + 2)
    ELSE << <<a, b>> >> \o PairSeq(a, b + 1)

AllPairs == PairSeq(0, 1)

EdgeSets ==
    {E \in SUBSET {AllPairs[i] : i \in 1..Len(AllPairs)} :
        <<0, 1>> \in E /\ Cardinality(E) >= 2 /\ Cardinality(E) <= MaxEdges}

RECURSIVE PairsIn(_, _)
PairsIn(pairs, E) ==
    IF pairs = <<>> THEN <<>>
    ELSE (IF Head(pairs) \in E THEN <<Head(pairs)>> ELSE <<>>)
             \o PairsIn(Tail(pairs), E)

\* the edges of E as a list: <<0, 1>> first, the others after it in
\* lexicographic order or in the reverse of it
EdgeOrder(E, reversed) ==
    LET sorted == PairsIn(AllPairs, E)
    IN  IF reversed THEN <<Head(sorted)>> \o Reverse(Tail(sorted)) ELSE sorted

\* positions in edge_list of the edges that end at v, as edge handles
RECURSIVE EdgesAt(_, _, _)
EdgesAt(edge_list, v, id) ==
    IF edge_list = <<>> THEN <<>>
    ELSE (IF v \in {Head(edge_list)[1], Head(edge_list)[2]} THEN <<id>> ELSE <<>>)
             \o EdgesAt(Tail(edge_list), v, id + 1)

\* the slot table: the points, then the edges, then the rank-2 node
HandArena(edge_list) ==
    LET nv == Cardinality(HandVertexIds)
        ne == Len(edge_list)
    IN  [v \in 1..nv |->
            PointPolytope(EdgesAt(edge_list, v - 1, nv),
                          IntVector(<<v - 1, (v - 1) * (v - 1)>>))]
        \o [e \in 1..ne |-> BranchPolytope(<<nv + ne>>, 1, edge_list[e])]
        \o <<BranchPolytope(<<>>, 2, [e \in 1..ne |-> nv + e - 1])>>

HandArenas == {HandArena(EdgeOrder(E, rev)) : E \in EdgeSets, rev \in BOOLEAN}

\* polygons() has been called
InitPolygons ==
    /\ pg_polytopes \in SlicedArenas \cup HandArenas
    /\ pg_slot = 1
    /\ pg_first = 0
    /\ pg_prev = 0
    /\ pg_current = 0
    /\ pg_verts = <<>>
    /\ pg_out = <<>>
    /\ pg_pc = "scan"
    /\ IdleOutsidePolygons

\* lines 176-199: the iterator yields the next live rank-2 node; its
\* adjacency lists are built and the walk is set at its first edge
BeginPolygon ==
    /\ pg_pc = "scan"
    /\ NextFace(pg_polytopes, pg_slot) # 0
    /\ LET f == NextFace(pg_polytopes, pg_slot)
           edge_list == pg_polytopes[f].children
           first_edge == edge_list[1]
           first_vertex == pg_polytopes[first_edge + 1].children[1]
           current == pg_polytopes[first_edge + 1].children[2]
       IN  IF \/ AdjacencyPanics(pg_polytopes, edge_list)
              \/ edge_list = <<>>
              \/ ~IsPoint(pg_polytopes, current)
           THEN /\ pg_pc' = "panicked"
                /\ pg_slot' = f
                /\ UNCHANGED <<pg_first, pg_prev, pg_current, pg_verts>>
           ELSE /\ pg_pc' = "walk"
                /\ pg_slot' = f
                /\ pg_first' = first_vertex
                /\ pg_prev' = first_vertex
                /\ pg_current' = current
                /\ pg_verts' = <<current>>
    /\ UNCHANGED <<outsidePolygons, pg_polytopes, pg_out>>

\* lines 200-211: one iteration of the while loop
WalkStep ==
    /\ pg_pc = "walk"
    /\ pg_current # pg_first
    /\ Len(pg_verts) < MaxWalk
    /\ LET new == FindNotPrev(Neighbors(pg_polytopes, pg_polytopes[pg_slot].children,
                                        pg_current),
                              pg_prev)
       IN  IF new = -1 \/ ~IsPoint(pg_polytopes, new)
           THEN /\ pg_pc' = "panicked"
                /\ UNCHANGED <<pg_prev, pg_current, pg_verts>>
           ELSE /\ pg_prev' = pg_current
                /\ pg_current' = new
                /\ pg_verts' = Append(pg_verts, new)
                /\ UNCHANGED pg_pc
    /\ UNCHANGED <<outsidePolygons, pg_polytopes, pg_slot, pg_first, pg_out>>

\* lines 200 and 213: the loop ends at first_vertex and the polygon is made
EndPolygon ==
    /\ pg_pc = "walk"
    /\ pg_current = pg_first
    /\ pg_out' = Append(pg_out, Polygon(pg_polytopes, pg_verts))
    /\ pg_slot' = pg_slot + 1
    /\ pg_pc' = "scan"
    /\ UNCHANGED <<outsidePolygons, pg_polytopes, pg_first, pg_prev, pg_current,
                   pg_verts>>

\* line 215: the iterator is exhausted and the list is returned
ReturnPolygons ==
    /\ pg_pc = "scan"
    /\ NextFace(pg_polytopes, pg_slot) = 0
    /\ pg_pc' = "returned"
    /\ UNCHANGED <<outsidePolygons, pg_polytopes, pg_slot, pg_first, pg_prev,
                   pg_current, pg_verts, pg_out>>

NextPolygons ==
    \/ BeginPolygon
    \/ WalkStep
    \/ EndPolygon
    \/ ReturnPolygons

(***************************************************************************)
(* The "Generate cube" and "Generate!" buttons of the demo window (demo.rs *)
(* lines 169-216), one step per click.  The diagram field holds whatever   *)
(* was typed into it; the polygons and arrows are kept as the call that    *)
(* produced them, and every library call of a handler is recorded.         *)
(***************************************************************************)
\* Longest text typed into the diagram field.
MaxCdLen == 3

\* the characters typed into the diagram field
CdChars == {"4", "2", "1", "0", ",", " ", "x", "+"}

CdTexts == SeqsUpTo(CdChars, MaxCdLen)

\* the pole lists of the "Base facets" editor
DemoPoles == {<<IntVector(<<1>>)>>, <<IntVector(<<1, 1, 1>>)>>}

\* position of the first ',' of cs, or 0
FirstComma(cs) ==
    IF \E i \in DOMAIN cs : cs[i] = ","
    THEN CHOOSE i \in DOMAIN cs : cs[i] = "," /\ \A j \in 1..(i - 1) : cs[j] # ","
    ELSE 0

\* str::split(','), demo.rs line 192: the pieces between the commas, empty
\* pieces included
RECURSIVE Split(_)
Split(cs) ==
    IF FirstComma(cs) = 0 THEN <<cs>>
    ELSE <<SubSeq(cs, 1, FirstComma(cs) - 1)>>
             \o Split(SubSeq(cs, FirstComma(cs) + 1, Len(cs)))

\* str::trim, demo.rs line 193
RECURSIVE Trim(_)
Trim(cs) ==
    IF cs = <<>> THEN cs
    ELSE IF Head(cs) = " " THEN Trim(Tail(cs))
    ELSE IF cs[Len(cs)] = " " THEN Trim(SubSeq(cs, 1, Len(cs) - 1))
    ELSE cs

IsDigit(c) == c \in {"0", "1", "2", "3", "4", "5", "6", "7", "8", "9"}

DigitValue(c) ==
    CASE c = "0" -> 0 [] c = "1" -> 1 [] c = "2" -> 2 [] c = "3" -> 3
      [] c = "4" -> 4 [] c = "5" -> 5 [] c = "6" -> 6 [] c = "7" -> 7
      [] c = "8" -> 8 [] c = "9" -> 9

\* the value of a string of digits
RECURSIVE DigitsValue(_)
DigitsValue(cs) ==
    IF cs = <<>> THEN 0
    ELSE 10 * DigitsValue(SubSeq(cs, 1, Len(cs) - 1)) + DigitValue(cs[Len(cs)])

\* str::parse::<usize>, demo.rs line 193: an optional '+', then one digit or
\* more and nothing else (the texts typed are too short to overflow usize)
ParseUsize(cs) ==
    LET digits == IF cs # <<>> /\ Head(cs) = "+" THEN Tail(cs) ELSE cs
    IN  IF digits # <<>> /\ \A i \in DOMAIN digits : IsDigit(digits[i])
        THEN [ok |-> TRUE, value |-> DigitsValue(digits)]
        ELSE [ok |-> FALSE, value |-> 0]

\* Result::unwrap_or
UnwrapOr(r, default) == IF r.ok THEN r.value ELSE default

\* demo.rs lines 190-194: xs
ParseEdges(cd) ==
    [i \in 1..Len(Split(cd)) |-> UnwrapOr(ParseUsize(Trim(Split(cd)[i])), 0)]

AnyLabelBelowOne(xs) == \E i \in DOMAIN xs : xs[i] < 1

\* demo.rs line 195: xs.iter().any(|&x| x <= 1)
AnyLabelTooSmall(xs) == \E i \in DOMAIN xs : xs[i] <= 1

\* CoxeterDiagram::with_edges(xs).ndim(), coxeter.rs lines 8-15
DiagramNdim(edges) == (Len(edges) % 256) + 1

\* Vector::truncate, vector.rs lines 231-233
VecTruncate(v, n) == [num |-> SubSeq(v.num, 1, Min(Len(v.num), n)), den |-> v.den]

\* polygons, ndim and arrows of the window
DemoShown == [polygons |-> demo_polygons, ndim |-> demo_ndim, arrows |-> demo_arrows]

\* the library calls of the else branch, demo.rs lines 198-214, in order
ConstructionCalls ==
    <<"CoxeterDiagram::with_edges", "ndim", "mirrors", "mirrors", "Matrix::from_cols",
      "inverse", "transpose", "generators", "truncate", "transform", "shape_geom">>

InitDemo ==
    /\ demo_cd \in CdTexts
    /\ demo_cd_error = FALSE
    /\ demo_ndim = 3
    /\ demo_poles \in DemoPoles
    /\ demo_polygons = EmptyVec
    /\ demo_arrows = EmptyVec
    /\ demo_calls = <<>>
    /\ demo_last = "none"
    /\ demo_pre = [polygons |-> EmptyVec, ndim |-> 3, arrows |-> EmptyVec]
    /\ IdleOutsideDemo

\* demo.rs lines 169-171: the "Generate cube" button
GenerateCube ==
    /\ demo_polygons' = CallResult("new_cube.polygons", demo_ndim, <<>>, <<>>)
    /\ demo_calls' = <<"PolytopeArena::new_cube", "polygons">>
    /\ demo_last' = "Generate cube"
    /\ demo_pre' = DemoShown
    /\ UNCHANGED <<outsideDemo, demo_cd, demo_cd_error, demo_ndim, demo_poles,
                   demo_arrows>>

\* demo.rs lines 188-216: the "Generate!" button, or a frame with
\* auto_generate set
Generate ==
    /\ demo_last' = "Generate!"
    /\ demo_pre' = DemoShown
    /\ \E xs \in {ParseEdges(demo_cd)} :
           IF AnyLabelTooSmall(xs)
           THEN /\ demo_cd_error' = TRUE
                /\ demo_calls' = <<>>
                /\ UNCHANGED <<demo_ndim, demo_poles, demo_polygons, demo_arrows>>
           ELSE \E n \in {DiagramNdim(xs)} :
                \E poles \in {[i \in DOMAIN demo_poles |-> VecTruncate(demo_poles[i], n)]} :
                    /\ demo_cd_error' = FALSE
                    /\ demo_ndim' = n
                    /\ demo_poles' = poles
                    /\ demo_arrows' = CallResult("mirrors, transform", n, xs, poles)
                    /\ demo_polygons' = CallResult("shape_geom", n, xs, poles)
                    /\ demo_calls' = ConstructionCalls
    /\ UNCHANGED <<outsideDemo, demo_cd>>

NextDemo ==
    \/ GenerateCube
    \/ Generate

(***************************************************************************)
(* shape_geom (polytope.rs lines 8-38): one step for the set-up, one per   *)
(* outer iteration begun, per generator applied and per outer iteration    *)
(* ended, one per pole sliced, then the steps of polygons() on the arena.  *)
(* The generators are the mirrors of [4,3], whose matrices are integral;   *)
(* a pole length is a square root and is kept to MagScale parts of 1.      *)
(***************************************************************************)
\* sqrt is kept to the nearest multiple of 1 / MagScale
MagScale == 64

\* the integer nearest to the square root of n
IsqrtNearest(n) ==
    LET k == CHOOSE j \in 0..(4 * n) : j * j <= 4 * n /\ (j + 1) * (j + 1) > 4 * n
    IN  (k + 1) \div 2

\* VectorRef::mag, vector.rs lines 39-47
VecMag(v) ==
    LET mag2 == VecDot(v, v)
    IN  IF mag2.d = 0 THEN mag2
        ELSE ScalarNormal([n |-> IsqrtNearest((mag2.n * MagScale * MagScale) \div mag2.d),
                           d |-> MagScale])

\* f32::max of two lengths
ScalarMax(a, b) == IF a.n * b.d < b.n * a.d THEN b ELSE a

\* lines 13-17: the largest pole length
RECURSIVE MaxMag(_)
MaxMag(facets) ==
    IF Len(facets) = 1 THEN VecMag(facets[1])
    ELSE ScalarMax(MaxMag(SubSeq(facets, 1, Len(facets) - 1)), VecMag(facets[Len(facets)]))

\* new_cube with a radius that is a fraction
NewCubeFraction(n_dim, radius) ==
    [k \in 1..Pow(3, n_dim) |->
        LET p == CubePolytope(k - 1, n_dim, radius.n)
        IN  IF p.is_point
            THEN [p EXCEPT !.point = VecNormal([num |-> p.point.num, den |-> radius.d])]
            ELSE p]

\* Vector::set_ndim, vector.rs lines 228-230
VecSetNdim(v, n) == VecNormal([num |-> Resize(v.num, n, 0), den |-> v.den])

\* transform over the matrix's own dimensions only, the components of v
\* beyond them dropped
MatrixTransformOwnDims(m, v) ==
    VecNormal([num |-> [i \in 1..m.ndim |->
                           SumRange([j \in 1..m.ndim |->
                                        MatrixGet(m, j - 1, i - 1) * VecNum(v, j)],
                                    1, m.ndim + 1)],
               den |-> v.den])

\* Matrix::transform, matrix.rs lines 107-116
MatrixTransform(m, v) ==
    LET n == Max(m.ndim, VecNdim(v))
    IN  VecNormal([num |-> [i \in 1..n |->
                               SumRange([j \in 1..n |->
                                            MatrixGet(m, j - 1, i - 1) * VecNum(v, j)],
                                        1, n + 1)],
                   den |-> v.den])

\* Vector::approx_eq, vector.rs lines 216-221
VecApproxEq(self, other) ==
    LET n == Max(VecNdim(self), VecNdim(other))
        c == CommonDen(self.den, other.den)
    IN  /\ c.den # 0
        /\ \A k \in 1..n :
               Abs(VecNum(self, k) * c.l - VecNum(other, k) * c.r) * EPSILON_INV < c.den

\* the mirrors of the Coxeter diagrams [4,3] and [4]
Generators43 == <<Mirror43a, Mirror43b, Mirror43c>>
Generators4 == <<Mirror43a, Mirror43b>>

\* the calls of shape_geom made
ShapeInputs ==
    {[ndim |-> 3, generators |-> Generators43, base_facets |-> <<IntVector(<<1>>)>>],
     [ndim |-> 3, generators |-> Generators43, base_facets |-> <<IntVector(<<1, 1, 1>>)>>],
     [ndim |-> 3, generators |-> Generators43, base_facets |-> <<IntVector(<<1, 1>>)>>],
     [ndim |-> 2, generators |-> Generators4, base_facets |-> <<IntVector(<<1>>)>>],
     [ndim |-> 2, generators |-> Generators4, base_facets |-> <<IntVector(<<1, 1>>)>>],
     [ndim |-> 3, generators |-> Generators43, base_facets |-> <<>>]}

InitShape ==
    /\ \E input \in ShapeInputs :
           /\ sg_ndim = input.ndim
           /\ sg_generators = input.generators
           /\ sg_base_facets = input.base_facets
    /\ sg_arena = Working(NewCubePolytopes(0, 1))
    /\ sg_facet_poles = <<>>
    /\ sg_next_unprocessed = 0
    /\ sg_gen = 1
    /\ sg_slice = 1
    /\ sg_pc = "start"
    /\ IdlePolygons
    /\ IdleOutsideShape

\* lines 13-23: the cube and the pole list, or expect("no base facets")
ShapeBegin ==
    /\ sg_pc = "start"
    /\ IF sg_base_facets = <<>>
       THEN /\ sg_pc' = "panicked"
            /\ UNCHANGED <<sg_arena, sg_facet_poles>>
       ELSE \E radius \in {MaxMag(sg_base_facets)} :
            \E initial_radius \in {ScalarNormal([n |-> radius.n * 2 * sg_ndim,
                                                 d |-> radius.d])} :
                /\ sg_arena' = Working(NewCubeFraction(sg_ndim, initial_radius))
                /\ sg_facet_poles' = sg_base_facets
                /\ sg_pc' = "orbit"
    /\ UNCHANGED <<outsideShape, polygonVars, sg_ndim, sg_generators, sg_base_facets,
                   sg_next_unprocessed, sg_gen, sg_slice>>

\* lines 24-25: an iteration of the while loop begins
OrbitBegin ==
    /\ sg_pc = "orbit"
    /\ sg_next_unprocessed < Len(sg_facet_poles)
    /\ sg_facet_poles' = [sg_facet_poles EXCEPT ![sg_next_unprocessed + 1] =
                                                   VecSetNdim(@, sg_ndim)]
    /\ sg_gen' = 1
    /\ sg_pc' = "gens"
    /\ UNCHANGED <<outsideShape, polygonVars, sg_ndim, sg_generators, sg_base_facets,
                   sg_arena, sg_next_unprocessed, sg_slice>>

\* lines 26-31: one generator is applied to the pole
OrbitGen ==
    /\ sg_pc = "gens"
    /\ sg_gen <= Len(sg_generators)
    /\ \E new_pole \in {MatrixTransform(sg_generators[sg_gen],
                                         sg_facet_poles[sg_next_unprocessed + 1])} :
           sg_facet_poles' =
               IF \A k \in 1..Len(sg_facet_poles) :
                      ~VecApproxEq(sg_facet_poles[k], new_pole)
               THEN Append(sg_facet_poles, new_pole)
               ELSE sg_facet_poles
    /\ sg_gen' = sg_gen + 1
    /\ UNCHANGED <<outsideShape, polygonVars, sg_ndim, sg_generators, sg_base_facets,
                   sg_arena, sg_next_unprocessed, sg_slice, sg_pc>>

\* line 32
OrbitEnd ==
    /\ sg_pc = "gens"
    /\ sg_gen > Len(sg_generators)
    /\ sg_next_unprocessed' = sg_next_unprocessed + 1
    /\ sg_pc' = "orbit"
    /\ UNCHANGED <<outsideShape, polygonVars, sg_ndim, sg_generators, sg_base_facets,
                   sg_arena, sg_facet_poles, sg_gen, sg_slice>>

\* line 24: the condition of the while loop fails
OrbitExit ==
    /\ sg_pc = "orbit"
    /\ sg_next_unprocessed >= Len(sg_facet_poles)
    /\ sg_slice' = 1
    /\ sg_pc' = "slice"
    /\ UNCHANGED <<outsideShape, polygonVars, sg_ndim, sg_generators, sg_base_facets,
                   sg_arena, sg_facet_poles, sg_next_unprocessed, sg_gen>>

\* lines 34-36: the arena is sliced by the next pole
SliceFacet ==
    /\ sg_pc = "slice"
    /\ sg_slice <= Len(sg_facet_poles)
    /\ \E sliced \in {SliceByPlane(sg_arena, NewCubeRoot(sg_ndim),
                                    sg_facet_poles[sg_slice])} :
           /\ sg_arena' = sliced
           /\ sg_pc' = IF sliced.panic THEN "panicked" ELSE "slice"
    /\ sg_slice' = sg_slice + 1
    /\ UNCHANGED <<outsideShape, polygonVars, sg_ndim, sg_generators, sg_base_facets,
                   sg_facet_poles, sg_next_unprocessed, sg_gen>>

\* line 37: arena.polygons() is called
CallPolygons ==
    /\ sg_pc = "slice"
    /\ sg_slice > Len(sg_facet_poles)
    /\ sg_pc' = "polygons"
    /\ pg_polytopes' = sg_arena.polytopes
    /\ pg_slot' = 1
    /\ pg_pc' = "scan"
    /\ UNCHANGED <<outsideShape, pg_first, pg_prev, pg_current, pg_verts, pg_out,
                   sg_ndim, sg_generators, sg_base_facets, sg_arena, sg_facet_poles,
                   sg_next_unprocessed, sg_gen, sg_slice>>

NextShape ==
    \/ ShapeBegin
    \/ OrbitBegin
    \/ OrbitGen
    \/ OrbitEnd
    \/ OrbitExit
    \/ SliceFacet
    \/ CallPolygons
    \/ BeginPolygon
    \/ WalkStep
    \/ EndPolygon
    \/ ReturnPolygons

(***************************************************************************)
(* The cut of one edge in f32 (polytope.rs lines 244-250 and 280-286).     *)
(* An f32 value is the fraction [n, d] it stands for; every operation      *)
(* rounds its exact result to the nearest value with a significand of      *)
(* F32_MANTISSA_DIGITS bits, ties to even.  The values met here are far    *)
(* from the exponent limits of f32, so overflow and subnormals are left    *)
(* out.                                                                    *)
(***************************************************************************)
\* f32::MANTISSA_DIGITS
F32_MANTISSA_DIGITS == 24

RECURSIVE IsPowerOfTwo(_)
IsPowerOfTwo(k) == k = 1 \/ (k > 1 /\ k % 2 = 0 /\ IsPowerOfTwo(k \div 2))

\* q = floor(mag * 2^e / den) and the remainder r, for the first e that
\* fills the significand
RECURSIVE F32ScaleUp(_, _, _, _)
F32ScaleUp(q, r, den, e) ==
    IF q >= Pow(2, F32_MANTISSA_DIGITS - 1) THEN [q |-> q, r |-> r, e |-> e]
    ELSE F32ScaleUp(2 * q + (IF 2 * r >= den THEN 1 ELSE 0),
                    IF 2 * r >= den THEN 2 * r - den ELSE 2 * r, den, e + 1)

\* q halved until it fits the significand; half is the last bit dropped and
\* sticky tells whether anything was dropped before it
RECURSIVE F32ScaleDown(_, _, _, _)
F32ScaleDown(q, half, sticky, e) ==
    IF q < Pow(2, F32_MANTISSA_DIGITS)
    THEN [q |-> q, half |-> half, sticky |-> sticky, e |-> e]
    ELSE F32ScaleDown(q \div 2, q % 2 = 1, sticky \/ half, e + 1)

\* the f32 nearest to the fraction s
F32Round(s) ==
    IF s.d = 0 THEN s
    ELSE LET t == ScalarNormal(s)
             mag == Abs(t.n)
             sgn == IF t.n < 0 THEN -1 ELSE 1
             limit == Pow(2, F32_MANTISSA_DIGITS)
         IN  IF mag < limit /\ IsPowerOfTwo(t.d) THEN t
             ELSE IF mag \div t.d >= limit
             THEN LET x == F32ScaleDown(mag \div t.d, FALSE, mag % t.d # 0, 0)
                      up == x.half /\ (x.sticky \/ x.q % 2 = 1)
                  IN  [n |-> sgn * (x.q + (IF up THEN 1 ELSE 0)) * Pow(2, x.e),
                       d |-> 1]
             ELSE LET x == F32ScaleUp(mag \div t.d, mag % t.d, t.d, 0)
                      up == 2 * x.r > t.d \/ (2 * x.r = t.d /\ x.q % 2 = 1)
                  IN  ScalarNormal([n |-> sgn * (x.q + (IF up THEN 1 ELSE 0)),
                                    d |-> Pow(2, x.e)])

ScalarMul(s, t) == ScalarNormal([n |-> s.n * t.n, d |-> s.d * t.d])

\* the operators of f32
F32Add(x, y) == F32Round(ScalarAdd(x, y))

F32Sub(x, y) == F32Round(ScalarAdd(x, ScalarNeg(y)))

F32Mul(x, y) == F32Round(ScalarMul(x, y))

F32Div(x, y) ==
    IF x.d = 0 \/ y.d = 0 \/ y.n = 0 THEN [n |-> 0, d |-> 0]
    ELSE F32Round(ScalarMul(x, [n |-> y.d, d |-> y.n]))

\* VectorRef::get: zero beyond the stored components
F32Get(v, k) == IF k <= Len(v) THEN v[k] ELSE F32Zero

\* define_zero_padded_op!(Sub) on Vector<f32>
F32VecSub(lhs, rhs) ==
    [k \in 1..Max(Len(lhs), Len(rhs)) |-> F32Sub(F32Get(lhs, k), F32Get(rhs, k))]

\* define_zero_padded_op!(Add) on Vector<f32>
F32VecAdd(lhs, rhs) ==
    [k \in 1..Max(Len(lhs), Len(rhs)) |-> F32Add(F32Get(lhs, k), F32Get(rhs, k))]

\* Mul<f32> for Vector<f32>
F32VecMul(v, x) == [k \in 1..Len(v) |-> F32Mul(v[k], x)]

\* Div<f32> for Vector<f32>
F32VecDiv(v, x) == [k \in 1..Len(v) |-> F32Div(v[k], x)]

\* VectorRef::dot: the fold from zero over the zipped products
RECURSIVE F32DotFrom(_, _, _, _)
F32DotFrom(lhs, rhs, k, acc) ==
    IF k > Min(Len(lhs), Len(rhs)) THEN acc
    ELSE F32DotFrom(lhs, rhs, k + 1, F32Add(acc, F32Mul(lhs[k], rhs[k])))

F32Dot(lhs, rhs) == F32DotFrom(lhs, rhs, 1, F32Zero)

\* lines 244-250 in f32.  EPSILON is taken as 1 / EPSILON_INV: the distances
\* of the inputs below are multiples of 1/16, none of them between that and
\* the f32 nearest to 0.001.
F32SlicePoint(pole, point) ==
    IF GreaterThanMinusEpsilon(F32Dot(F32VecSub(pole, point), pole))
    THEN Kept ELSE Removed

\* the interpolation with b_distance not negated
F32EdgeIntersectionSameSign(pole, a, b) ==
    LET a_distance == F32Dot(F32VecSub(pole, a), pole)
        b_distance == F32Dot(F32VecSub(pole, b), pole)
        sum == F32Add(a_distance, b_distance)
    IN  [a_distance |-> a_distance, b_distance |-> b_distance, sum |-> sum,
         point |-> F32VecDiv(F32VecAdd(F32VecMul(b, a_distance),
                                       F32VecMul(a, b_distance)), sum)]

\* lines 281-286 in f32
F32EdgeIntersection(pole, a, b) ==
    LET a_distance == F32Dot(F32VecSub(pole, a), pole)
        b_distance == ScalarNeg(F32Dot(F32VecSub(pole, b), pole))
        sum == F32Add(a_distance, b_distance)
    IN  [a_distance |-> a_distance, b_distance |-> b_distance, sum |-> sum,
         point |-> F32VecDiv(F32VecAdd(F32VecMul(b, a_distance),
                                       F32VecMul(a, b_distance)), sum)]

\* the components of a rational vector as f32 values
F32Vector(v) == [k \in 1..Len(v.num) |-> F32Round([n |-> v.num[k], d |-> v.den])]

\* the components of the poles: quarters
CutPoleComponents ==
    {F32Round([n |-> j, d |-> 4]) : j \in {-3, -2, 1, 2, 3}}

RECURSIVE F32Vectors(_, _)
F32Vectors(xs, n) ==
    IF n = 0 THEN {<<>>}
    ELSE {Append(v, x) : v \in F32Vectors(xs, n - 1), x \in xs}

\* the edges of new_cube(n_dim, radius): the points of the two children of
\* every rank-1 node, in the order of its child list
CubeEdges(n_dim, radius) ==
    LET polys == NewCubePolytopes(n_dim, radius)
    IN  {[a |-> F32Vector(polys[polys[k].children[1] + 1].point),
          b |-> F32Vector(polys[polys[k].children[2] + 1].point)] :
            k \in {j \in 1..Len(polys) : polys[j].rank = 1 /\ ~polys[j].is_point}}

InitCut ==
    /\ \E n_dim \in 1..MaxCubeNdim : \E radius \in CubeRadii :
           /\ cut_pole \in F32Vectors(CutPoleComponents, n_dim)
           /\ \E edge \in CubeEdges(n_dim, radius) :
                  /\ cut_a = edge.a
                  /\ cut_b = edge.b
    /\ cut_a_result = Unknown
    /\ cut_b_result = Unknown
    /\ cut_a_distance = F32Zero
    /\ cut_b_distance = F32Zero
    /\ cut_sum = F32Zero
    /\ cut_point = <<>>
    /\ cut_pc = "start"
    /\ IdleOutsideCut

\* lines 255-267: the filter visits the two endpoints
ClassifyEndpoints ==
    /\ cut_pc = "start"
    /\ cut_a_result' = F32SlicePoint(cut_pole, cut_a)
    /\ cut_b_result' = F32SlicePoint(cut_pole, cut_b)
    /\ cut_pc' = "classified"
    /\ UNCHANGED <<outsideCut, cut_pole, cut_a, cut_b, cut_a_distance, cut_b_distance,
                   cut_sum, cut_point>>

\* lines 269-273: no child is left
RemoveEdge ==
    /\ cut_pc = "classified"
    /\ cut_a_result = Removed /\ cut_b_result = Removed
    /\ cut_pc' = "removed"
    /\ UNCHANGED <<outsideCut, cut_pole, cut_a, cut_b, cut_a_result, cut_b_result,
                   cut_a_distance, cut_b_distance, cut_sum, cut_point>>

\* lines 274-278: every child is Kept
KeepEdge ==
    /\ cut_pc = "classified"
    /\ cut_a_result = Kept /\ cut_b_result = Kept
    /\ cut_pc' = "kept"
    /\ UNCHANGED <<outsideCut, cut_pole, cut_a, cut_b, cut_a_result, cut_b_result,
                   cut_a_distance, cut_b_distance, cut_sum, cut_point>>

\* lines 279-291 for rank 1: the edge is Modified and the new point pushed
CutEdge ==
    /\ cut_pc = "classified"
    /\ (cut_a_result = Removed) # (cut_b_result = Removed)
    /\ \E r \in {F32EdgeIntersection(cut_pole, cut_a, cut_b)} :
           /\ cut_a_distance' = r.a_distance
           /\ cut_b_distance' = r.b_distance
           /\ cut_sum' = r.sum
           /\ cut_point' = r.point
    /\ cut_pc' = "modified"
    /\ UNCHANGED <<outsideCut, cut_pole, cut_a, cut_b, cut_a_result, cut_b_result>>

NextCut ==
    \/ ClassifyEndpoints
    \/ RemoveEdge
    \/ KeepEdge
    \/ CutEdge

SpecGroup == InitGroup /\ [][NextGroup]_vars

\* from_generators is sequential code: a step that can be taken is taken
SpecGroupFair == SpecGroup /\ WF_vars(NextGroup)

SpecArena == InitArena /\ [][NextArena]_vars

SpecMul == InitMul /\ [][NextMul]_vars

SpecOrder == InitOrder /\ [][NextOrder]_vars

SpecPolygons == InitPolygons /\ [][NextPolygons]_vars

SpecDemo == InitDemo /\ [][NextDemo]_vars

SpecShape == InitShape /\ [][NextShape]_vars

SpecCut == InitCut /\ [][NextCut]_vars

SpecGenerate == InitGroup /\ [][NextGenerate]_vars


(***************************************************************************)
(* Properties of Group::from_generators.                                   *)
(***************************************************************************)
Returned == pc = "done"

\* C1: in every returned group, compose(e, inverse(e)) is the identity
\* handle for every element handle e.
C1_ComposeInverseIsIdent ==
    Returned => \A e \in elements : compose(e, inverse(e)) = IDENT

\* C2: in every returned group, compose(e1, e2) is the handle whose matrix
\* is matrix(e1) multiplied by matrix(e2), for every two handles e1, e2.
C2_ComposeIsMatrixProduct ==
    Returned =>
        \A e1 \in elements : \A e2 \in elements :
            /\ compose(e1, e2) \in elements
            /\ matrix(compose(e1, e2)) = MatrixMul(matrix(e1), matrix(e2))

\* a returned non-abelian group: composition is exercised on elements that
\* do not commute
C2_Witness ==
    /\ Returned
    /\ \E e1 \in elements : \E e2 \in elements : compose(e1, e2) # compose(e2, e1)

\* C4: at every step of the closure and in the returned group, handle 0
\* holds the identity matrix and no two entries of the element-matrix table
\* are approximately equal.
C4_DistinctElements ==
    /\ matrix(IDENT) = MatrixIdent(ndim)
    /\ MatrixApproxEq(matrix(IDENT), EMPTY_IDENT)
    /\ \A a \in elements : \A b \in elements :
          a # b => ~MatrixApproxEq(matrix(a), matrix(b))

\* the closure is under way, and a candidate equal to a stored element (the
\* successor of e is an earlier non-identity element) has been turned down
C4_Witness ==
    /\ pc = "closure"
    /\ order >= 8
    /\ \E i \in 1..Len(generators) : \E k \in 1..Len(elem_successors[i]) :
          elem_successors[i][k] > 0 /\ elem_successors[i][k] < k

\* C5: in every returned group the successor table is total and correct:
\* elem_successors[i][e] is defined for every generator i and every handle
\* e, and is the handle of the element whose matrix is matrix(e) multiplied
\* by generator i.
C5_SuccessorsTotalAndCorrect ==
    Returned =>
        /\ Len(elem_successors) = Len(generators)
        /\ \A i \in 1..Len(generators) :
              /\ Len(elem_successors[i]) = order
              /\ \A e \in elements :
                    /\ elem_successors[i][e + 1] \in elements
                    /\ matrix(elem_successors[i][e + 1])
                          = MatrixMul(matrix(e), generators[i])

\* the returned group of the Coxeter diagram [4,3]: 3 generators, 48 elements
C5_Witness ==
    /\ Returned
    /\ generators = <<Mirror43a, Mirror43b, Mirror43c>>
    /\ order = 48

\* C6: in every returned group, handle i+1 is a valid element handle whose
\* matrix is generator i, for every i in [0, g).
C6_GeneratorsAreFirstElements ==
    Returned =>
        \A i \in 0..(generator_count - 1) :
            /\ (i + 1) \in group_generators
            /\ i + 1 < order
            /\ MatrixApproxEq(matrix(i + 1), generators[i + 1])

\* C7: the closure loop terminates, and once it has, every discovered
\* element has been processed: next_unprocessed equals order and every
\* generator's successor list has exactly order entries.
C7_ClosureTerminates ==
    /\ <>(pc # "closure")
    /\ [](pc # "closure" =>
            /\ next_unprocessed = order
            /\ \A i \in 1..Len(generators) : Len(elem_successors[i]) = order)

\* the closure loop has ended after discovering elements beyond the
\* generators
C7_Witness ==
    /\ pc = "inverses"
    /\ order > generator_count + 1
    /\ next_unprocessed = order

\* C8: no returned group has a non-identity element whose inverse is the
\* identity handle.
C8_NoIdentInverse ==
    Returned => \A e \in elements : e # IDENT => inverse(e) # IDENT


(***************************************************************************)
(* Properties of the polytope arena.                                       *)
(***************************************************************************)
RECURSIVE Binomial(_, _)
Binomial(n, k) ==
    IF k = 0 THEN 1
    ELSE IF k > n THEN 0
    ELSE Binomial(n - 1, k - 1) + Binomial(n - 1, k)

\* the ids of the live polytopes of rank r in the slot table polys
OfRank(polys, r) == {p \in 0..(Len(polys) - 1) : polys[p + 1].live /\ polys[p + 1].rank = r}

FreshCube == arena_pc = "idle" /\ slices_done = 0

\* C9: new_cube(ndim, r) creates 3^ndim nodes, of which C(ndim,k) * 2^(ndim-k)
\* have rank k (2^ndim of rank 0, ndim * 2^(ndim-1) of rank 1), and the root
\* handle is the single node of rank ndim.
C9_CubeFaceCounts ==
    FreshCube =>
        /\ Len(polytopes) = Pow(3, cube_ndim)
        /\ \A p \in 0..(Len(polytopes) - 1) :
              /\ polytopes[p + 1].live
              /\ polytopes[p + 1].is_point <=> polytopes[p + 1].rank = 0
        /\ \A k \in 0..cube_ndim :
              Cardinality(OfRank(polytopes, k))
                  = Binomial(cube_ndim, k) * Pow(2, cube_ndim - k)
        /\ Cardinality(OfRank(polytopes, 0)) = Pow(2, cube_ndim)
        /\ cube_ndim >= 1 =>
              Cardinality(OfRank(polytopes, 1)) = cube_ndim * Pow(2, cube_ndim - 1)
        /\ OfRank(polytopes, cube_ndim) = {root}

\* a cube of the largest dimension of the model has been built
C9_Witness == FreshCube /\ cube_ndim = MaxCubeNdim /\ Len(polytopes) >= 9

\* the slot table polys with every slice classification reset
Unclassified(polys) ==
    [k \in 1..Len(polys) |-> [polys[k] EXCEPT !.slice_result = Unknown]]

\* every rank-0 point x of polys satisfies (pole - x) . pole > -EPSILON
AllPointsInside(polys, pole) ==
    \A k \in 1..Len(polys) :
        (polys[k].live /\ polys[k].is_point) =>
            GreaterThanMinusEpsilon(PoleDistance(pole, polys[k].point))

\* the live rank-0 points of polys, as slot positions
LivePoints(polys) ==
    {k \in 1..Len(polys) : polys[k].live /\ polys[k].is_point}

\* C10: if every rank-0 point x of the arena (an arena that holds a point)
\* satisfies (pole - x) . pole > -EPSILON when slice_by_plane(pole) is
\* called, the recursive pass classifies every node Kept and the call leaves
\* the arena as it was: no slot added or emptied, every node's children,
\* parents and coordinates as before, the root unchanged.
C10_SliceOutsideKeepsArena ==
    (/\ slices_done > 0
     /\ LivePoints(pre_polytopes) # {}
     /\ AllPointsInside(pre_polytopes, slice_pole)) =>
        /\ arena_pc \in {"sliced", "idle"}
        /\ root = NewCubeRoot(cube_ndim)
        /\ arena_pc = "sliced" =>
              /\ \A k \in 1..Len(polytopes) :
                    polytopes[k].live => polytopes[k].slice_result = Kept
              /\ Unclassified(polytopes) = pre_polytopes
        /\ arena_pc = "idle" => polytopes = pre_polytopes

\* slice_by_plane has returned from a call that kept every point of an arena
\* that an earlier call had cut, one of the points lying beyond the
\* hyperplane by less than EPSILON
C10_Witness ==
    /\ arena_pc = "idle"
    /\ slices_done = 2
    /\ Len(pre_polytopes) > Pow(3, cube_ndim)
    /\ cube_ndim >= 2
    /\ AllPointsInside(pre_polytopes, slice_pole)
    /\ \E k \in 1..Len(pre_polytopes) :
          /\ pre_polytopes[k].live
          /\ pre_polytopes[k].is_point
          /\ PoleDistance(slice_pole, pre_polytopes[k].point).n < 0


\* no rank-0 point of polys is classified Kept by pole
NoPointKept(polys, pole) ==
    \A k \in LivePoints(polys) : SlicePoint(pole, polys[k].point) # Kept

\* C11: if no rank-0 point of the arena (an arena that holds a point) is
\* classified Kept by the pole, slice_by_plane(pole) classifies every node
\* Removed, the root included, creates no node, and leaves every slot empty.
C11_SliceInsideRemovesArena ==
    (/\ slices_done > 0
     /\ LivePoints(pre_polytopes) # {}
     /\ NoPointKept(pre_polytopes, slice_pole)) =>
        /\ arena_pc \in {"sliced", "idle"}
        /\ Len(polytopes) = Len(pre_polytopes)
        /\ arena_pc = "sliced" =>
              /\ polytopes[root + 1].slice_result = Removed
              /\ \A k \in 1..Len(polytopes) :
                    polytopes[k].live => polytopes[k].slice_result = Removed
        /\ arena_pc = "idle" =>
              \A k \in 1..Len(polytopes) : polytopes[k] = EmptySlot

\* slice_by_plane has returned from a call that removed a cube of the
\* largest dimension
C11_Witness ==
    /\ arena_pc = "idle"
    /\ slices_done > 0
    /\ cube_ndim = MaxCubeNdim
    /\ LivePoints(pre_polytopes) # {}
    /\ NoPointKept(pre_polytopes, slice_pole)
    /\ \A k \in 1..Len(polytopes) : ~polytopes[k].live

\* C12: for any arena and any pole, a second slice_by_plane(pole) right
\* after a first one with the same pole completes, classifies every
\* remaining node Kept and leaves the arena as the first call left it.
C12_SliceTwiceIdempotent ==
    (slices_done >= 2 /\ prev_pole = slice_pole) =>
        /\ arena_pc \in {"sliced", "idle"}
        /\ arena_pc = "sliced" =>
              /\ \A k \in 1..Len(polytopes) :
                    polytopes[k].live => polytopes[k].slice_result = Kept
              /\ Unclassified(polytopes) = pre_polytopes
        /\ arena_pc = "idle" => polytopes = pre_polytopes


\* C13 as stated: slice_by_plane(pole) intersects the polytope with the
\* half-space {x : (pole - x) . pole <= 0}: after the call every surviving
\* rank-0 point x of the arena satisfies (pole - x) . pole <= 0.
C13_SurvivorsBeyondPlane ==
    (arena_pc = "idle" /\ slices_done > 0) =>
        \A k \in LivePoints(polytopes) :
            LET s == PoleDistance(slice_pole, polytopes[k].point)
            IN  s.d > 0 /\ s.n <= 0

\* C13 amended: slice_by_plane(pole) keeps the side of the hyperplane that
\* holds the origin: after the call every surviving rank-0 point x that the
\* call did not create satisfies (pole - x) . pole > -EPSILON, and every
\* point the call created lies on the hyperplane, (pole - x) . pole = 0.
C13_SurvivorsOriginSide ==
    (arena_pc = "idle" /\ slices_done > 0) =>
        \A k \in LivePoints(polytopes) :
            LET s == PoleDistance(slice_pole, polytopes[k].point)
            IN  IF k <= Len(pre_polytopes)
                THEN GreaterThanMinusEpsilon(s)
                ELSE s.d > 0 /\ s.n = 0

\* slice_by_plane has returned from a call that removed a point, created a
\* point and kept a point that lies off the hyperplane on the origin's side
C13_Witness ==
    /\ arena_pc = "idle"
    /\ slices_done > 0
    /\ Len(polytopes) > Len(pre_polytopes)
    /\ \E k \in LivePoints(pre_polytopes) : ~polytopes[k].live
    /\ \E k \in LivePoints(polytopes) :
          PoleDistance(slice_pole, polytopes[k].point).n > 0

\* the children of old, in order, that polys does not mark Removed
RECURSIVE NotRemoved(_, _)
NotRemoved(old, polys) ==
    IF old = <<>> THEN <<>>
    ELSE (IF polys[Head(old) + 1].slice_result = Removed THEN <<>>
          ELSE <<Head(old)>>) \o NotRemoved(Tail(old), polys)

\* C20: after the recursive pass of one slice a branch node is classified
\* from its children's classifications: Removed if and only if every child
\* is Removed; Kept if and only if every child is Kept; otherwise
\* Modified(n), where n is a node appended by this pass, of rank one less
\* than the branch, marked Kept, and the branch's child list is its
\* non-Removed children in their original order followed by n.
C20_BranchClassification ==
    arena_pc = "sliced" =>
        \A k \in 1..Len(pre_polytopes) :
            (/\ pre_polytopes[k].live
             /\ ~pre_polytopes[k].is_point
             /\ polytopes[k].slice_result # Unknown) =>
                LET old == pre_polytopes[k].children
                    res == polytopes[k].slice_result
                    n == res.id
                IN  /\ res = Removed <=>
                          \A i \in 1..Len(old) :
                              polytopes[old[i] + 1].slice_result = Removed
                    /\ res = Kept <=>
                          \A i \in 1..Len(old) :
                              polytopes[old[i] + 1].slice_result = Kept
                    /\ res \notin {Removed, Kept} =>
                          /\ res.tag = "Modified"
                          /\ n >= Len(pre_polytopes)
                          /\ n < Len(polytopes)
                          /\ polytopes[n + 1].live
                          /\ polytopes[n + 1].rank = pre_polytopes[k].rank - 1
                          /\ polytopes[n + 1].slice_result = Kept
                          /\ polytopes[k].children
                                 = Append(NotRemoved(old, polytopes), n)

\* the pass has classified a face Modified that lost an edge, kept an edge
\* and had an edge cut
C20_Witness ==
    /\ arena_pc = "sliced"
    /\ \E k \in 1..Len(pre_polytopes) :
          /\ pre_polytopes[k].live
          /\ pre_polytopes[k].rank = 2
          /\ polytopes[k].slice_result.tag = "Modified"
          /\ \E i \in 1..Len(pre_polytopes[k].children) :
                polytopes[pre_polytopes[k].children[i] + 1].slice_result = Removed
          /\ \E i \in 1..Len(pre_polytopes[k].children) :
                polytopes[pre_polytopes[k].children[i] + 1].slice_result = Kept
          /\ \E i \in 1..Len(pre_polytopes[k].children) :
                polytopes[pre_polytopes[k].children[i] + 1].slice_result.tag
                    = "Modified"


(***************************************************************************)
(* Properties of the matrix product.                                       *)
(***************************************************************************)
\* entry (col, row) of the ordinary product of a and b, each extended to
\* dimension n with the entries of the identity
ProductEntry(a, b, n, col, row) ==
    SumRange([i \in 0..(n - 1) |-> MatrixGet(a, i, row) * MatrixGet(b, col, i)],
             0, n)

\* C19: for any two square matrices A and B of possibly different declared
\* dimensions, in either order of size, &A * &B has dimension
\* max(A.ndim, B.ndim) and equals the ordinary matrix product of A and B
\* after each is extended to that dimension with implicit identity entries.
C19_MulIsExtendedProduct ==
    mul_pc = "done" =>
        LET n == Max(mul_lhs.ndim, mul_rhs.ndim)
        IN  /\ mul_out.ndim = n
            /\ Len(mul_out.elems) = n * n
            /\ \A x \in 0..(n - 1) : \A y \in 0..(n - 1) :
                  MatrixGet(mul_out, x, y)
                      = ProductEntry(mul_lhs, mul_rhs, n, x, y)


(***************************************************************************)
(* Properties of slicing in two orders.                                    *)
(***************************************************************************)
\* the coordinates of the live rank-0 points of polys
VertexSet(polys) == {polys[k].point : k \in LivePoints(polys)}

\* the number of live nodes of polys of the rank rk
RankCount(polys, rk) ==
    Cardinality({k \in 1..Len(polys) : polys[k].live /\ polys[k].rank = rk})

\* C14: for any arena built by new_cube and any two poles p and q, slicing
\* by p then q and slicing by q then p both complete and produce the same
\* final polytope: the same set of surviving vertex coordinates and the same
\* number of live nodes of every rank.
C14_SliceOrderIndependent ==
    ord_pc = "done" =>
        /\ ~ord_pq.panic
        /\ ~ord_qp.panic
        /\ VertexSet(ord_pq.polytopes) = VertexSet(ord_qp.polytopes)
        /\ \A rk \in 0..ord_ndim :
              RankCount(ord_pq.polytopes, rk) = RankCount(ord_qp.polytopes, rk)


(***************************************************************************)
(* Properties of polygons().                                               *)
(***************************************************************************)
\* the positions of the live rank-2 slots of polys from position from on,
\* in order
RECURSIVE FaceList(_, _)
FaceList(polys, from) ==
    IF NextFace(polys, from) = 0 THEN <<>>
    ELSE <<NextFace(polys, from)>> \o FaceList(polys, NextFace(polys, from) + 1)

\* the end points of the edge with the handle e
EdgeEnds(polys, e) == {polys[e + 1].children[1], polys[e + 1].children[2]}

\* the points the edges of edge_list end at
FaceVertices(polys, edge_list) ==
    UNION {EdgeEnds(polys, edge_list[i]) : i \in 1..Len(edge_list)}

\* the points that paths along the edges of edge_list reach from S
RECURSIVE Reach(_, _, _)
Reach(polys, edge_list, S) ==
    LET step == S \cup UNION {EdgeEnds(polys, edge_list[i]) :
                                i \in {j \in 1..Len(edge_list) :
                                          EdgeEnds(polys, edge_list[j]) \cap S # {}}}
    IN  IF step = S THEN S ELSE Reach(polys, edge_list, step)

\* the edges of the rank-2 node at position f form a single closed cycle:
\* every edge joins two different live points, no two edges join the same
\* two points, every point is the end of exactly two edges, and the edges
\* are connected
SingleCycle(polys, f) ==
    LET edge_list == polys[f].children
    IN  /\ edge_list # <<>>
        /\ \A i \in 1..Len(edge_list) :
              /\ IsLive(polys, edge_list[i])
              /\ polys[edge_list[i] + 1].rank = 1
              /\ Len(polys[edge_list[i] + 1].children) = 2
              /\ IsPoint(polys, polys[edge_list[i] + 1].children[1])
              /\ IsPoint(polys, polys[edge_list[i] + 1].children[2])
              /\ Cardinality(EdgeEnds(polys, edge_list[i])) = 2
        /\ \A i, j \in 1..Len(edge_list) :
              i # j => EdgeEnds(polys, edge_list[i]) # EdgeEnds(polys, edge_list[j])
        /\ \A v \in FaceVertices(polys, edge_list) :
              Len(Neighbors(polys, edge_list, v)) = 2
        /\ Reach(polys, edge_list, EdgeEnds(polys, edge_list[1]))
               = FaceVertices(polys, edge_list)

\* polygon is the vertex loop of the rank-2 node at position f: as many
\* vertices as edges, every point of the node once, cyclically consecutive
\* vertices the two ends of one of its edges, and the coordinates those of
\* the points
IsVertexLoop(polys, f, polygon) ==
    LET edge_list == polys[f].children
        k == Len(edge_list)
        ids == polygon.ids
    IN  /\ Len(ids) = k
        /\ Len(polygon.verts) = k
        /\ {ids[i] : i \in 1..k} = FaceVertices(polys, edge_list)
        /\ \A i, j \in 1..k : i # j => ids[i] # ids[j]
        /\ \A i \in 1..k :
              /\ \E e \in 1..k :
                    EdgeEnds(polys, edge_list[e]) = {ids[i], ids[(i % k) + 1]}
              /\ polygon.verts[i] = polys[ids[i] + 1].point

\* C16: for every live rank-2 node whose k edges form a single closed
\* cycle, polygons() emits exactly one polygon with k vertices in which
\* every vertex of the cycle appears exactly once and every two cyclically
\* consecutive vertices are the two end points of one of the node's edges;
\* polygons() emits one polygon per live rank-2 node, in slot order, and
\* none for empty slots or other ranks; the walk of such a node never
\* fails and never pushes more than k points.
C16_PolygonsAreVertexLoops ==
    /\ pg_pc = "returned" =>
          LET faces == FaceList(pg_polytopes, 1)
          IN  /\ Len(pg_out) = Len(faces)
              /\ \A i \in 1..Len(faces) :
                    SingleCycle(pg_polytopes, faces[i]) =>
                        IsVertexLoop(pg_polytopes, faces[i], pg_out[i])
    /\ (pg_pc \in {"walk", "panicked"} /\ SingleCycle(pg_polytopes, pg_slot)) =>
          /\ pg_pc = "walk"
          /\ Len(pg_verts) <= Len(pg_polytopes[pg_slot].children)

\* polygons() has returned the faces of a cube cut twice, a triangle and a
\* polygon of five or more vertices among them
C16_Witness ==
    /\ pg_pc = "returned"
    /\ Len(pg_out) >= 7
    /\ \A i \in 1..Len(pg_out) :
          SingleCycle(pg_polytopes, FaceList(pg_polytopes, 1)[i])
    /\ \E i \in 1..Len(pg_out) : Len(pg_out[i].ids) = 3
    /\ \E i \in 1..Len(pg_out) : Len(pg_out[i].ids) >= 5

C18_GenerateValidatesLabels ==
    demo_last = "Generate!" =>
        LET xs == ParseEdges(demo_cd)
        IN  IF \E i \in DOMAIN xs : xs[i] <= 1
            THEN /\ demo_cd_error
                 /\ demo_calls = <<>>
                 /\ DemoShown = demo_pre
            ELSE /\ ~demo_cd_error
                 /\ demo_calls # <<>>
                 /\ demo_calls[1] = "CoxeterDiagram::with_edges"
                 /\ demo_calls[Len(demo_calls)] = "shape_geom"
                 /\ demo_ndim = Len(xs) + 1
                 /\ demo_polygons.call = "shape_geom"
                 /\ demo_polygons.edges = xs

\* the text "4,1" was rejected for its label 1 while the polygons of a cube
\* were on show
C18_Witness ==
    /\ demo_last = "Generate!"
    /\ demo_cd = <<"4", ",", "1">>
    /\ demo_cd_error
    /\ demo_pre.polygons.call = "new_cube.polygons"
    /\ demo_polygons = demo_pre.polygons

(***************************************************************************)
(* Properties of shape_geom.                                               *)
(***************************************************************************)
\* the live rank-2 nodes of a slot table
LiveFaces(polys) == {k \in 1..Len(polys) : polys[k].live /\ polys[k].rank = 2}

\* shape_geom was called in 3 dimensions with the mirrors of [4,3] and the
\* given seed facet
Called43(seed) ==
    /\ sg_ndim = 3
    /\ sg_generators = Generators43
    /\ sg_base_facets = <<IntVector(seed)>>

\* C15: shape_geom with the reflection generators of the Coxeter diagram
\* [4,3] in 3 dimensions does not fail, and what it returns is one polygon
\* per live rank-2 node of its arena: exactly 6 for the seed facet unit(0)
\* and exactly 8 for the seed facet (1,1,1).
C15_CubeAndOctahedronFaces ==
    (Called43(<<1>>) \/ Called43(<<1, 1, 1>>)) =>
        /\ sg_pc # "panicked"
        /\ pg_pc # "panicked"
        /\ (pg_pc = "walk" /\ pg_current # pg_first) => Len(pg_verts) < MaxWalk
        /\ pg_pc = "returned" =>
              /\ Len(pg_out) = Cardinality(LiveFaces(sg_arena.polytopes))
              /\ Called43(<<1>>) => Len(pg_out) = 6
              /\ Called43(<<1, 1, 1>>) => Len(pg_out) = 8

\* shape_geom has returned for the seed facet (1,1,1), after slicing by the
\* eight poles of its orbit
C15_Witness ==
    /\ Called43(<<1, 1, 1>>)
    /\ pg_pc = "returned"
    /\ Len(sg_facet_poles) = 8
    /\ sg_slice = 9
    /\ Len(pg_out) = 8

(***************************************************************************)
(* Structural properties of the arena under new_cube and slice_by_plane.   *)
(***************************************************************************)
\* the positions of the slots pushed by the slice_by_plane call in progress
\* or last made
Synthesized == (Len(pre_polytopes) + 1)..Len(polytopes)

\* C21: after new_cube and after any sequence of slice_by_plane calls, every
\* child of a live branch of rank r has rank r - 1, every rank-0 node is a
\* point without children, every node pushed by a slice has rank one less
\* than each branch it was added to, and no debug assertion on ranks of
\* push_polytope or add_child has failed.
C21_RanksConsistent ==
    /\ ~debug_failed
    /\ \A k \in 1..Len(polytopes) :
          polytopes[k].live =>
              /\ (polytopes[k].rank = 0) = polytopes[k].is_point
              /\ polytopes[k].is_point => polytopes[k].children = <<>>
              /\ \A i \in 1..Len(polytopes[k].children) :
                     IsLive(polytopes, polytopes[k].children[i]) =>
                         polytopes[polytopes[k].children[i] + 1].rank
                             = polytopes[k].rank - 1
    /\ \A k \in Synthesized :
          polytopes[k].live =>
              /\ polytopes[k].parents # <<>>
              /\ \A i \in 1..Len(polytopes[k].parents) :
                     IsLive(polytopes, polytopes[k].parents[i]) =>
                         polytopes[polytopes[k].parents[i] + 1].rank
                             = polytopes[k].rank + 1

\* a cube of dimension 3 has been cut twice, and the second cut pushed a
\* point, an edge and a face
C21_Witness ==
    /\ cube_ndim = 3
    /\ slices_done = 2
    /\ arena_pc = "idle"
    /\ \A r \in 0..2 : \E k \in Synthesized : polytopes[k].live /\ polytopes[k].rank = r

\* the handles in the child list and the parent list of the slot at k
HandlesOf(polys, k) ==
    {polys[k].children[i] : i \in 1..Len(polys[k].children)}
        \cup {polys[k].parents[i] : i \in 1..Len(polys[k].parents)}

\* C22: when slice_by_plane has returned, every handle in the child list or
\* the parent list of a live node refers to a live slot; and the recursive
\* pass empties no slot: every slot live when the call was entered is live
\* until the sweep.
C22_HandlesStayValid ==
    /\ arena_pc = "idle" =>
          \A k \in 1..Len(polytopes) :
              polytopes[k].live =>
                  \A h \in HandlesOf(polytopes, k) : IsLive(polytopes, h)
    /\ (arena_pc = "sliced" /\ slices_done > 0) =>
          \A k \in 1..Len(pre_polytopes) :
              pre_polytopes[k].live => polytopes[k].live

\* a slice of a cube of dimension 3 has returned after removing some nodes
\* and cutting others, which lost children and gained a new one
C22_Witness ==
    /\ cube_ndim = 3
    /\ arena_pc = "idle"
    /\ slices_done > 0
    /\ \E k \in 1..Len(pre_polytopes) : pre_polytopes[k].live /\ ~polytopes[k].live
    /\ \E k \in 1..Len(pre_polytopes) :
          /\ polytopes[k].live
          /\ polytopes[k].rank = 2
          /\ polytopes[k].children # pre_polytopes[k].children
          /\ \E i \in 1..Len(pre_polytopes[k].children) :
                 ~IsLive(polytopes, pre_polytopes[k].children[i])

\* the step in which slice_by_plane returns: the sweep ends without a panic
SliceReturns == arena_pc = "sliced" /\ arena_pc' = "idle"

\* C23: whenever slice_by_plane returns, every slot the pass classified
\* Removed is empty and every live node is Unknown again, the nodes the pass
\* created included; between calls every live node is Unknown.
C23_SweepResetsClassifications ==
    /\ [](arena_pc = "idle" =>
            \A k \in 1..Len(polytopes) :
                polytopes[k].live => polytopes[k].slice_result = Unknown)
    /\ [][SliceReturns =>
            /\ Len(polytopes') = Len(polytopes)
            /\ \A k \in 1..Len(polytopes) :
                   /\ (polytopes[k].live /\ polytopes[k].slice_result = Removed)
                          => ~polytopes'[k].live
                   /\ polytopes'[k].live => polytopes'[k].slice_result = Unknown]_vars

\* a slice has returned that removed nodes, modified others and created
\* nodes, and the created nodes are live
C23_Witness ==
    /\ arena_pc = "idle"
    /\ slices_done > 0
    /\ cube_ndim >= 2
    /\ \E k \in 1..Len(pre_polytopes) : pre_polytopes[k].live /\ ~polytopes[k].live
    /\ Synthesized # {}
    /\ \A k \in Synthesized : polytopes[k].live /\ polytopes[k].slice_result = Unknown

\* C24: while the root is live, the recursive pass of slice_by_plane leaves
\* no live node Unknown, so the sweep that follows never panics with
\* "orphans in polytope arena"; the sweep of an arena that holds a live
\* Unknown node panics.
C24_NoOrphans ==
    /\ [](arena_pc = "sliced" =>
            \A k \in 1..Len(polytopes) :
                polytopes[k].live => polytopes[k].slice_result # Unknown)
    /\ [](arena_pc = "sliced" => ~SweepFrom(Working(polytopes), 1).panic)
    /\ [][arena_pc = "sliced" => arena_pc' = "idle"]_vars
    /\ []((arena_pc = "idle" /\ \E k \in 1..Len(polytopes) : polytopes[k].live)
            => SweepFrom(Working(polytopes), 1).panic)

\* the pass over a cube of dimension 3 cut once before has ended with Kept,
\* Removed and Modified nodes and with new nodes, the root still live
C24_Witness ==
    /\ cube_ndim = 3
    /\ arena_pc = "sliced"
    /\ slices_done = 2
    /\ IsLive(pre_polytopes, root)
    /\ Len(polytopes) > Len(pre_polytopes)
    /\ \A t \in {"Kept", "Removed", "Modified"} :
          \E k \in 1..Len(polytopes) :
              polytopes[k].live /\ polytopes[k].slice_result.tag = t

\* the handles the recursive pass has stored in a Modified(_) classification
ModifiedIds(polys) ==
    {polys[k].slice_result.id :
        k \in {j \in 1..Len(polys) :
                  polys[j].live /\ polys[j].slice_result.tag = "Modified"}}

\* C25: handles are never reused: in every step the slot table keeps its
\* slots and only grows at the end, an empty slot stays empty, a slot that
\* stays live keeps its rank and its point-or-branch kind, and the handles
\* of the nodes a pass creates are the indices from the old table length on.
C25_HandlesNeverReused ==
    /\ [][/\ Len(polytopes') >= Len(polytopes)
           /\ \A k \in 1..Len(polytopes) :
                  /\ ~polytopes[k].live => ~polytopes'[k].live
                  /\ (polytopes[k].live /\ polytopes'[k].live) =>
                         /\ polytopes'[k].rank = polytopes[k].rank
                         /\ polytopes'[k].is_point = polytopes[k].is_point]_vars
    /\ [](arena_pc = "sliced" =>
            ModifiedIds(polytopes) = Len(pre_polytopes)..(Len(polytopes) - 1))

\* a second pass has appended nodes to a table that holds empty slots left
\* by the first slice, and those slots are still empty
C25_Witness ==
    /\ arena_pc = "sliced"
    /\ slices_done = 2
    /\ Len(polytopes) > Len(pre_polytopes)
    /\ \E k \in 1..Len(pre_polytopes) : ~pre_polytopes[k].live /\ ~polytopes[k].live

\* the children of the slot at k that the pass did not classify Removed
SurvivingChildren(k) ==
    LET NotRemovedChild(h) == polytopes[h + 1].slice_result # Removed
    IN  SelectSeq(pre_polytopes[k].children, NotRemovedChild)

\* C26: within one pass a node is classified once, from Unknown to Kept,
\* Removed or Modified(id): slice_polytope on a classified node returns the
\* stored classification and changes nothing, whatever the pole, so when the
\* pass ends each node has had its children filtered once and each Modified
\* node has been given exactly one new boundary node of its own.
C26_ClassifiedOnce ==
    (arena_pc = "sliced") =>
        /\ \A k \in 1..Len(polytopes) : \A pole \in Poles :
               polytopes[k].live =>
                   SlicePolytope(Working(polytopes), k - 1, pole)
                       = [st |-> Working(polytopes), ret |-> polytopes[k].slice_result]
        /\ \A k \in 1..Len(pre_polytopes) :
               pre_polytopes[k].live =>
                   /\ pre_polytopes[k].slice_result = Unknown
                   /\ polytopes[k].slice_result.tag \in {"Kept", "Removed", "Modified"}
                   /\ polytopes[k].children =
                          IF polytopes[k].slice_result.tag = "Modified"
                          THEN Append(SurvivingChildren(k), polytopes[k].slice_result.id)
                          ELSE SurvivingChildren(k)
        /\ \A j, k \in 1..Len(pre_polytopes) :
               (/\ j # k
                /\ polytopes[j].live /\ polytopes[j].slice_result.tag = "Modified"
                /\ polytopes[k].live /\ polytopes[k].slice_result.tag = "Modified")
                   => polytopes[j].slice_result.id # polytopes[k].slice_result.id
        /\ Len(polytopes) - Len(pre_polytopes)
              = Cardinality({k \in 1..Len(pre_polytopes) :
                                polytopes[k].live
                                    /\ polytopes[k].slice_result.tag = "Modified"})

\* the pass over a cube of dimension 3 has cut an edge that two faces
\* share: the edge is reached once from each face and holds one new point
C26_Witness ==
    /\ cube_ndim = 3
    /\ arena_pc = "sliced"
    /\ \E e \in 1..Len(pre_polytopes) :
          /\ polytopes[e].live
          /\ polytopes[e].rank = 1
          /\ polytopes[e].slice_result.tag = "Modified"
          /\ Len(polytopes[e].children) = 2
          /\ \E f, g \in 1..Len(pre_polytopes) :
                 /\ f # g
                 /\ polytopes[f].live /\ polytopes[f].rank = 2
                 /\ polytopes[g].live /\ polytopes[g].rank = 2
                 /\ polytopes[f].slice_result.tag = "Modified"
                 /\ polytopes[g].slice_result.tag = "Modified"
                 /\ \E i \in 1..Len(polytopes[f].children) :
                        polytopes[f].children[i] = e - 1
                 /\ \E i \in 1..Len(polytopes[g].children) :
                        polytopes[g].children[i] = e - 1

\* (pole - p) . pole for the point p the cut has pushed, without rounding
RECURSIVE ExactDistanceFrom(_, _, _)
ExactDistanceFrom(pole, p, k) ==
    IF k > Len(pole) THEN F32Zero
    ELSE ScalarAdd(ScalarMul(ScalarAdd(pole[k], ScalarNeg(F32Get(p, k))), pole[k]),
                   ExactDistanceFrom(pole, p, k + 1))

CutResidual == ExactDistanceFrom(cut_pole, cut_point, 1)

C28_EdgesAndCyclesWellFormed ==
    (arena_pc = "idle") =>
        /\ \A k \in 1..Len(polytopes) :
               (polytopes[k].live /\ polytopes[k].rank = 1) =>
                   /\ ~polytopes[k].is_point
                   /\ Len(polytopes[k].children) = 2
                   /\ IsPoint(polytopes, polytopes[k].children[1])
                   /\ IsPoint(polytopes, polytopes[k].children[2])
        /\ \A f \in LiveFaces(polytopes) :
               /\ ~AdjacencyPanics(polytopes, polytopes[f].children)
               /\ SingleCycle(polytopes, f)

\* the boundary nodes of the Modified children of the slot at k, in the
\* order of that child list
RECURSIVE BoundaryOfChildren(_)
BoundaryOfChildren(children) ==
    IF children = <<>> THEN <<>>
    ELSE (IF polytopes[Head(children) + 1].slice_result.tag = "Modified"
          THEN <<polytopes[Head(children) + 1].slice_result.id>> ELSE <<>>)
             \o BoundaryOfChildren(Tail(children))

\* C29: when the recursive pass classifies a branch of rank above 1 as
\* Modified, at least one of its children was classified Modified, and the
\* boundary node pushed for it has the boundary nodes of those children as
\* its children, a list that is not empty; the pass never panics in
\* push_polytope: a call panics only if the root slot was empty at entry.
C29_BoundaryNotEmpty ==
    /\ (arena_pc = "sliced") =>
          \A k \in 1..Len(pre_polytopes) :
              (/\ pre_polytopes[k].live
               /\ pre_polytopes[k].rank > 1
               /\ polytopes[k].slice_result.tag = "Modified") =>
                  /\ \E i \in 1..Len(pre_polytopes[k].children) :
                         polytopes[pre_polytopes[k].children[i] + 1].slice_result.tag
                             = "Modified"
                  /\ polytopes[polytopes[k].slice_result.id + 1].children # <<>>
                  /\ polytopes[polytopes[k].slice_result.id + 1].children
                         = BoundaryOfChildren(pre_polytopes[k].children)
    /\ (arena_pc = "panicked") => ~IsLive(pre_polytopes, root)

\* the pass over a cube of dimension 3 has classified the root and faces
\* of it as Modified, some children of the root being Kept or Removed
C29_Witness ==
    /\ cube_ndim = 3
    /\ arena_pc = "sliced"
    /\ polytopes[root + 1].slice_result.tag = "Modified"
    /\ \E i, j \in 1..Len(pre_polytopes[root + 1].children) :
          /\ polytopes[pre_polytopes[root + 1].children[i] + 1].slice_result.tag
                 = "Modified"
          /\ polytopes[pre_polytopes[root + 1].children[j] + 1].slice_result.tag
                 # "Modified"
    /\ Len(polytopes[polytopes[root + 1].slice_result.id + 1].children) >= 3

\* C30: for a non-empty generator list, once generate_group and
\* from_generators have both returned, ret holds as many matrices as the
\* group has elements and the k-th matrix of ret is the matrix of the
\* element of handle k; while generate_group runs, the matrices it has
\* found so far are those of the first handles.
C30_SameEnumeration ==
    (generators # <<>> /\ gg_pc # "unused") =>
        /\ Len(gg_ret) <= order
        /\ \A k \in 0..(order - 1) : k < Len(gg_ret) => gg_ret[k + 1] = matrix(k)
        /\ (gg_pc = "done" /\ pc = "done") => Len(gg_ret) = order

\* both functions have returned a group of three non-commuting generators
\* of different dimensions
C30_Witness ==
    /\ gg_pc = "done"
    /\ pc = "done"
    /\ generators = <<Mirror43a, Mirror43b, Mirror43c>>
    /\ Len(gg_ret) = 48
    /\ order = 48
    /\ gg_ret[5] # gg_ret[6]

====
